---------------------------- MODULE Spec2Model ----------------------------
(***************************************************************************)
(* Model of the Cubicle Template Compiler (package ctc): the template      *)
(* instance generator, the restricted condition evaluator, the expansion   *)
(* engine, the printer of the expanded tree and Compiler.run.              *)
(*                                                                         *)
(* Conventions                                                             *)
(*  - a text (Python str) is a sequence of one-character strings;          *)
(*  - a value of the Data Environment is a tagged record: Str, Num, Bool,  *)
(*    List, Map (items in native iteration order) or Null;                 *)
(*  - a value that may be None is an option: Some (v) or Nothing; the      *)
(*    outcome of a function carries the same flag (OkNone is a return of   *)
(*    None), so that None and the empty list stay distinct;                *)
(*  - a function that may raise returns Ok (v) or Err (e); a generator     *)
(*    returns the instances it yields before it raises, and the error.     *)
(***************************************************************************)
EXTENDS Integers, Sequences, FiniteSets, TLC

(***************************************************************************)
(* Texts                                                                   *)
(***************************************************************************)
Letters == {"A", "B", "C", "D", "T", "E", "F", "N", "M", "S", "s", "d", "e", "p", "q", "r", "t", "x", "y", "z", "k", "v", "a", "l", "u"}
DigitChars == <<"0", "1", "2", "3", "4", "5", "6", "7", "8", "9">>

\* code point of the characters the model uses (ord)
CharCode(c) ==
    CASE c = "\n" -> 10 [] c = " " -> 32 [] c = "'" -> 39 [] c = "," -> 44
      [] c = "0" -> 48 [] c = "1" -> 49 [] c = "2" -> 50 [] c = "3" -> 51
      [] c = "4" -> 52 [] c = "5" -> 53 [] c = "6" -> 54 [] c = "7" -> 55
      [] c = "8" -> 56 [] c = "9" -> 57 [] c = ":" -> 58
      [] c = "A" -> 65 [] c = "B" -> 66 [] c = "C" -> 67 [] c = "D" -> 68
      [] c = "E" -> 69 [] c = "F" -> 70 [] c = "M" -> 77 [] c = "N" -> 78 [] c = "S" -> 83
      [] c = "T" -> 84 [] c = "[" -> 91 [] c = "]" -> 93 [] c = "_" -> 95
      [] c = "a" -> 97 [] c = "d" -> 100 [] c = "e" -> 101 [] c = "k" -> 107
      [] c = "l" -> 108 [] c = "p" -> 112 [] c = "q" -> 113
      [] c = "r" -> 114 [] c = "s" -> 115 [] c = "t" -> 116 [] c = "u" -> 117 [] c = "v" -> 118
      [] c = "x" -> 120 [] c = "y" -> 121 [] c = "z" -> 122
      [] c = "{" -> 123 [] c = "}" -> 125
      [] OTHER -> 0

\* s < t for two Python str (lexicographic on code points)
RECURSIVE TextLT(_, _)
TextLT(s, t) ==
    IF t = <<>> THEN FALSE
    ELSE IF s = <<>> THEN TRUE
    ELSE IF CharCode(Head(s)) # CharCode(Head(t)) THEN CharCode(Head(s)) < CharCode(Head(t))
    ELSE TextLT(Tail(s), Tail(t))

\* str (n) for a non-negative int
RECURSIVE IntText(_)
IntText(n) ==
    IF n < 10 THEN <<DigitChars[n + 1]>>
    ELSE IntText(n \div 10) \o <<DigitChars[(n % 10) + 1]>>

\* sep.join (l)
RECURSIVE Join(_, _)
Join(sep, l) ==
    IF l = <<>> THEN <<>>
    ELSE IF Len(l) = 1 THEN l[1]
    ELSE l[1] \o sep \o Join(sep, Tail(l))

\* l[0] + l[1] + ... (concatenation of a list of lists)
RECURSIVE Concat(_)
Concat(l) == IF l = <<>> THEN <<>> ELSE Head(l) \o Concat(Tail(l))

(***************************************************************************)
(* Values of the Data Environment, None, results and errors                *)
(***************************************************************************)
Some(v) == [none |-> FALSE, v |-> v]
Nothing == [none |-> TRUE, v |-> <<>>]

Str(s) == [t |-> "str", s |-> s]
Num(n) == [t |-> "num", n |-> n]
\* a JSON true or false: bool is a subclass of int, True == 1 and False == 0
Bool(b) == [t |-> "bool", n |-> IF b THEN 1 ELSE 0]
List(items) == [t |-> "seq", items |-> items]
Map(items) == [t |-> "map", items |-> items]
Null == [t |-> "null", n |-> 0]
Item(key, value) == [k |-> key, v |-> value]

KEY == <<"_", "k", "e", "y">>
VALUE == <<"v", "a", "l", "u", "e">>

HasKey(m, key) == \E i \in 1..Len(m.items) : m.items[i].k = key
Lookup(m, key) == m.items[CHOOSE i \in 1..Len(m.items) : m.items[i].k = key].v

\* d[key] = value on a dict: replaces in place or appends
SetItem(m, key, value) ==
    IF HasKey(m, key)
    THEN Map([i \in 1..Len(m.items) |->
                 IF m.items[i].k = key THEN Item(key, value) ELSE m.items[i]])
    ELSE Map(Append(m.items, Item(key, value)))

\* str (v), as "{}".format (v) renders a value
RECURSIVE ValueRepr(_), ValueText(_), ReprAll(_), ReprItems(_)
ValueText(v) ==
    CASE v.t = "str" -> v.s
      [] v.t = "num" -> IntText(v.n)
      [] v.t = "bool" -> IF v.n = 1 THEN <<"T", "r", "u", "e">> ELSE <<"F", "a", "l", "s", "e">>
      [] v.t = "null" -> <<"N", "o", "n", "e">>
      [] v.t = "seq" -> <<"[">> \o Join(<<",", " ">>, ReprAll(v.items)) \o <<"]">>
      [] v.t = "map" -> <<"{">> \o Join(<<",", " ">>, ReprItems(v.items)) \o <<"}">>
ValueRepr(v) == IF v.t = "str" THEN <<"'">> \o v.s \o <<"'">> ELSE ValueText(v)
ReprAll(l) == [i \in 1..Len(l) |-> ValueRepr(l[i])]
ReprItems(l) == [i \in 1..Len(l) |-> <<"'">> \o l[i].k \o <<"'", ":", " ">> \o ValueRepr(l[i].v)]

NoErr == [kind |-> "none", trail |-> <<>>]
Error(kind) == [kind |-> kind, trail |-> <<>>]
\* raise Error ("<layer>: {}".format (e))
Wrap(layer, e) == [kind |-> e.kind, trail |-> <<layer>> \o e.trail]
\* the exceptions that are instances of template.Error
ErrorKinds == {"lookup", "shape", "name-format", "condition-restriction", "nested-or"}
IsError(e) == e.kind \in ErrorKinds

Ok(v) == [ok |-> TRUE, none |-> FALSE, v |-> v, e |-> NoErr]
OkNone == [ok |-> TRUE, none |-> TRUE, v |-> <<>>, e |-> NoErr]
Err(e) == [ok |-> FALSE, none |-> FALSE, v |-> <<>>, e |-> e]
\* the elements of a list, none of them None
Somes(l) == [i \in 1..Len(l) |-> Some(l[i])]

\* simplify (l, keep_list), l a list of options
simplify(l, keep_list) ==
    LET kept == SelectSeq(l, LAMBDA x : ~x.none)
        cleaned == [i \in 1..Len(kept) |-> kept[i].v]
    IN  IF Len(cleaned) > 0 \/ keep_list THEN Ok(cleaned) ELSE OkNone

\* alter_f (node, context, field = func) given r, the outcome of
\* func (node[field], context)
alter_f(node, field, r) ==
    IF ~r.ok THEN r
    ELSE IF r.none THEN OkNone
    ELSE Ok([node EXCEPT ![field] = r.v])
\* alter_f with two fields, in keyword order
alter_f2(node, field1, r1, field2, r2) ==
    IF ~r1.ok THEN r1
    ELSE IF r1.none THEN OkNone
    ELSE IF ~r2.ok THEN r2
    ELSE IF r2.none THEN OkNone
    ELSE Ok([node EXCEPT ![field1] = r1.v, ![field2] = r2.v])

\* helpers for loops: the results of the iterations in order; the first
\* exception raised ends the loop
AllOk(rs) == \A i \in 1..Len(rs) : rs[i].ok
FirstErr(rs) == rs[CHOOSE i \in 1..Len(rs) : ~rs[i].ok /\ \A j \in 1..(i - 1) : rs[j].ok].e
Values(rs) == [i \in 1..Len(rs) |-> rs[i].v]
\* a loop over a generator: the bodies of the yielded instances run before
\* the generator's own exception (gen_err) is raised
Collect(rs, gen_err) ==
    IF ~AllOk(rs) THEN Err(FirstErr(rs))
    ELSE IF gen_err # NoErr THEN Err(gen_err)
    ELSE Ok(Values(rs))

\* the same loop when the body is generated.append (r): None is appended
\* like any other value
CollectAppended(rs, gen_err) ==
    IF ~AllOk(rs) THEN Err(FirstErr(rs))
    ELSE IF gen_err # NoErr THEN Err(gen_err)
    ELSE Ok(rs)

\* generated.extend (r): extending a list with None raises TypeError
Extendable(r) == IF r.ok /\ r.none THEN Err(Error("TypeError")) ELSE r

\* a loop appending (or extending by) what each iteration produced, then
\* simplify (generated, keep_list); rs are the outcomes of the iterations
Simplified(rs, keep_list) ==
    IF ~AllOk(rs) THEN Err(FirstErr(rs)) ELSE simplify(rs, keep_list)
SimplifiedConcat(rs, keep_list) ==
    IF ~AllOk(rs) THEN Err(FirstErr(rs)) ELSE simplify(Concat(Values(rs)), keep_list)
\* generated.append (r)
Appended(r) == IF r.ok THEN Ok(<<r>>) ELSE r
\* generated.extend (r) for every r of c, a collected loop
Extended(c) == IF c.ok THEN Ok(Somes(Concat(c.v))) ELSE c
\* generated.extend (r) of a list that holds no None
ExtendedBy(r) == IF r.ok THEN Ok(Somes(r.v)) ELSE r
\* except Exception as e: raise Error ("<layer>: {}".format (e))
Wrapped(layer, r) == IF r.ok THEN r ELSE Err(Wrap(layer, r.e))

(***************************************************************************)
(* Raw AST: template references, declarations and names                    *)
(***************************************************************************)
ArgRef(a) == [k |-> "arg", arg |-> a]
KeyRef(n) == [k |-> "key_ref", key_ref |-> n]
FieldRef(n, f) == [k |-> "field_ref", key |-> n, field |-> f]
\* name_parts: lits = name_parts[0::2], tpls = name_parts[1::2]
Name(lits, tpls) == [lits |-> lits, tpls |-> tpls]
\* args and cond are options
TplDecl(args, cond) == [args |-> args, cond |-> cond]

\* NAME_FORMAT.match (s) with "^[A-Za-z][A-Za-z0-9_]*$": in a Python
\* pattern $ matches at the end of the text and also just before a newline
\* that ends the text
NAME_FORMAT(s) ==
    /\ Len(s) >= 1
    /\ s[1] \in Letters
    /\ \A i \in 2..Len(s) :
          \/ s[i] \in Letters \cup {"_"} \cup {DigitChars[j] : j \in 1..10}
          \/ i = Len(s) /\ s[i] = "\n"

(***************************************************************************)
(* TemplateInstanceGenerator                                               *)
(***************************************************************************)
empty == <<>>
single(v) == <<v>>

\* mutant: an index past the end of the context reads its last binding
InnerExpand_clamped(tpl, context, data) ==
    CASE tpl.k = "arg" ->
            IF data.t # "map" THEN Err(Error("shape"))
            ELSE IF ~HasKey(data, tpl.arg) THEN Err(Error("lookup"))
            ELSE Ok(Lookup(data, tpl.arg))
      [] tpl.k = "key_ref" ->
            IF context = <<>> THEN Err(Error("lookup"))
            ELSE IF tpl.key_ref >= Len(context) THEN Ok(Lookup(context[Len(context)], KEY))
            ELSE Ok(Lookup(context[tpl.key_ref + 1], KEY))
      [] tpl.k = "field_ref" ->
            IF tpl.key >= Len(context) THEN Err(Error("lookup"))
            ELSE IF ~HasKey(context[tpl.key + 1], tpl.field) THEN Err(Error("lookup"))
            ELSE Ok(Lookup(context[tpl.key + 1], tpl.field))
\* mutant: an argument the data do not hold is an empty collection
InnerExpand_absent_empty(tpl, context, data) ==
    CASE tpl.k = "arg" ->
            IF data.t # "map" THEN Err(Error("shape"))
            ELSE IF ~HasKey(data, tpl.arg) THEN Ok(List(<<>>))
            ELSE Ok(Lookup(data, tpl.arg))
      [] tpl.k = "key_ref" ->
            IF tpl.key_ref >= Len(context) THEN Err(Error("lookup"))
            ELSE Ok(Lookup(context[tpl.key_ref + 1], KEY))
      [] tpl.k = "field_ref" ->
            IF tpl.key >= Len(context) THEN Err(Error("lookup"))
            ELSE IF ~HasKey(context[tpl.key + 1], tpl.field) THEN Err(Error("lookup"))
            ELSE Ok(Lookup(context[tpl.key + 1], tpl.field))
\* expand without its except clause; an index is a numeral of the template
\* (never negative)
InnerExpand(tpl, context, data) ==
    CASE tpl.k = "arg" ->
            IF data.t # "map" THEN Err(Error("shape"))
            ELSE IF ~HasKey(data, tpl.arg) THEN Err(Error("lookup"))
            ELSE Ok(Lookup(data, tpl.arg))
      [] tpl.k = "key_ref" ->
            IF tpl.key_ref >= Len(context) THEN Err(Error("lookup"))
            ELSE Ok(Lookup(context[tpl.key_ref + 1], KEY))
      [] tpl.k = "field_ref" ->
            IF tpl.key >= Len(context) THEN Err(Error("lookup"))
            ELSE IF ~HasKey(context[tpl.key + 1], tpl.field) THEN Err(Error("lookup"))
            ELSE Ok(Lookup(context[tpl.key + 1], tpl.field))

expand(tpl, context, data) == Wrapped("template", InnerExpand(tpl, context, data))

\* name, given expanded = the outcomes of the calls of expand
NameText(name_parts, expanded) ==
    LET text == Concat([i \in 1..Len(name_parts.lits) |->
                    IF i = 1 THEN name_parts.lits[1]
                    ELSE ValueText(expanded[i - 1].v) \o name_parts.lits[i]])
    IN  IF ~AllOk(expanded) THEN Err(FirstErr(expanded))
        ELSE IF ~NAME_FORMAT(text) THEN Err(Error("name-format"))
        ELSE Ok(text)
name(name_parts, context, data) ==
    Wrapped("name", NameText(name_parts,
                [i \in 1..Len(name_parts.tpls) |-> expand(name_parts.tpls[i], context, data)]))

\* value is Null (Python's None) for the elements of a list
normalize(key, value) ==
    SetItem(IF value.t = "null" THEN Map(<<>>)
            ELSE IF value.t = "map" THEN value
            ELSE Map(<<Item(VALUE, value)>>),
            KEY, key)

\* a < b between two keys, as list.sort compares them; keys of different
\* types are not comparable (TypeError)
Comparable(a, b) == (a.t = "str" /\ b.t = "str") \/ ({a.t, b.t} \subseteq {"num", "bool"})
KeyLT(a, b) == IF a.t = "str" THEN TextLT(a.s, b.s) ELSE a.n < b.n

\* iterable.sort (key = lambda e: e["_key"]): stable
RECURSIVE InsertSorted(_, _)
InsertSorted(sorted, e) ==
    IF sorted = <<>> THEN <<e>>
    ELSE IF KeyLT(Lookup(e, KEY), Lookup(Head(sorted), KEY)) THEN <<e>> \o sorted
    ELSE <<Head(sorted)>> \o InsertSorted(Tail(sorted), e)
RECURSIVE SortedPrefix(_, _)
SortedPrefix(iterable, n) ==
    IF n = 0 THEN <<>> ELSE InsertSorted(SortedPrefix(iterable, n - 1), iterable[n])
\* mutant: the elements are left in native order
sort_native(iterable) == Ok(iterable)
sort(iterable) ==
    IF \E i, j \in 1..Len(iterable) :
          i # j /\ ~Comparable(Lookup(iterable[i], KEY), Lookup(iterable[j], KEY))
    THEN Err(Error("TypeError"))
    ELSE Ok(SortedPrefix(iterable, Len(iterable)))

\* the list built from the expanded value of a reference; a str is a
\* collections.Iterable of its characters
Normalized(iterable) ==
    CASE iterable.t = "map" ->
            Ok([i \in 1..Len(iterable.items) |->
                   normalize(Str(iterable.items[i].k), iterable.items[i].v)])
      [] iterable.t = "seq" ->
            Ok([i \in 1..Len(iterable.items) |-> normalize(iterable.items[i], Null)])
      [] iterable.t = "str" ->
            Ok([i \in 1..Len(iterable.s) |-> normalize(Str(<<iterable.s[i]>>), Null)])
      [] OTHER -> Err(Error("shape"))
\* the same two steps on the outcome of the step before
NormalizedOf(iterable) == IF iterable.ok THEN Normalized(iterable.v) ELSE iterable
SortedOf(normalized) == IF normalized.ok THEN sort(normalized.v) ELSE normalized

Gen(insts, err) == [insts |-> insts, err |-> err]

RECURSIVE recursive_generator(_, _, _), GenSorted(_, _, _, _), GenHeads(_, _, _, _)
recursive_generator(tpl_list, ctx, data) ==
    IF Len(tpl_list) = 0 THEN Gen(<<empty>>, NoErr)
    ELSE GenSorted(SortedOf(NormalizedOf(expand(tpl_list[1], ctx, data))),
                   Tail(tpl_list), ctx, data)
GenSorted(iterable, tpl_rest, ctx, data) ==
    IF ~iterable.ok THEN Gen(<<>>, iterable.e)
    ELSE GenHeads(iterable.v, tpl_rest, ctx, data)
\* yield head + tail for the tails of one head, then the following heads
Yielded(head, tails, more) ==
    IF tails.err # NoErr
    THEN Gen([i \in 1..Len(tails.insts) |-> head \o tails.insts[i]], tails.err)
    ELSE Gen([i \in 1..Len(tails.insts) |-> head \o tails.insts[i]] \o more.insts, more.err)
\* mutant: the tails are generated in a context shared by all the heads
GenHeads_shared(heads, tpl_rest, ctx, data) ==
    IF heads = <<>> THEN Gen(<<>>, NoErr)
    ELSE Yielded(single(Head(heads)),
                 recursive_generator(tpl_rest, ctx \o single(heads[Len(heads)]), data),
                 GenHeads(Tail(heads), tpl_rest, ctx, data))
\* for head_ in iterable: for tail in recursive_generator (...): yield head + tail
GenHeads(heads, tpl_rest, ctx, data) ==
    IF heads = <<>> THEN Gen(<<>>, NoErr)
    ELSE Yielded(single(Head(heads)),
                 recursive_generator(tpl_rest, ctx \o single(Head(heads)), data),
                 GenHeads(Tail(heads), tpl_rest, ctx, data))

(***************************************************************************)
(* Raw AST: expressions (an expanded node has the same shape, with texts   *)
(* for names and flat lists for formulas)                                  *)
(***************************************************************************)
Var(n) == [k |-> "var", name |-> n]
Array(n, il) == [k |-> "array", name |-> n, index |-> il]
RefVal(r) == [k |-> "ref", ref |-> r]
Const(c) == [k |-> "const", const |-> c]
Val(v) == [k |-> "val", val |-> v]
Op(l, o, r) == [k |-> "op", lhs |-> l, op |-> o, rhs |-> r]
Comp(l, o, r) == [lhs |-> l, op |-> o, rhs |-> r]
BoolComp(c) == [k |-> "comp", comp |-> c]
BoolForall(f) == [k |-> "forall", forall |-> f]
ForallComp(proc, c) == [k |-> "comp", proc |-> proc, comp |-> c]
ForallExpr(proc, o) == [k |-> "expr", proc |-> proc, expr |-> o]
\* elements of AND and OR expressions, of case, update and enum lists
Plain(e) == [k |-> "expr", expr |-> e]
Template(decl, body) == [k |-> "template", decl |-> decl, expr |-> body]
NestedOr(o) == [k |-> "or_expr", or_expr |-> o]

(***************************************************************************)
(* ExpandedExprTextEval                                                    *)
(***************************************************************************)
not_allowed == Err(Error("condition-restriction"))

text_ref(s) == IF s.k = "array" THEN not_allowed ELSE Ok(s.name)
text_rvalue(v) == IF v.k = "ref" THEN text_ref(v.ref) ELSE Ok(v.const)
text_expr(e) == IF e.k = "val" THEN text_rvalue(e.val) ELSE not_allowed
\* mutant: <> is evaluated as =
text_comp_expr_eq(c) ==
    LET l == text_expr(c.lhs)
        r == text_expr(c.rhs)
    IN  IF c.op \notin {<<"=">>, <<"<", ">">>} THEN not_allowed
        ELSE IF ~l.ok THEN l
        ELSE IF ~r.ok THEN r
        ELSE Ok(l.v = r.v)
text_comp_expr(c) ==
    LET l == text_expr(c.lhs)
        r == text_expr(c.rhs)
    IN  IF c.op \notin {<<"=">>, <<"<", ">">>} THEN not_allowed
        ELSE IF ~l.ok THEN l
        ELSE IF ~r.ok THEN r
        ELSE Ok(IF c.op = <<"=">> THEN l.v = r.v ELSE l.v # r.v)
text_bool_expr(e) == IF e.k = "forall" THEN not_allowed ELSE text_comp_expr(e.comp)
\* all (map (self.bool_expr, a)): stops at the first false element
RECURSIVE text_and_expr(_)
text_and_expr(a) ==
    IF a = <<>> THEN Ok(TRUE)
    ELSE LET h == text_bool_expr(Head(a))
         IN  IF ~h.ok THEN h
             ELSE IF ~h.v THEN Ok(FALSE)
             ELSE text_and_expr(Tail(a))
\* any (map (self.and_expr, o)): stops at the first true branch
RECURSIVE AnyBranch(_)
AnyBranch(o) ==
    IF o = <<>> THEN Ok(FALSE)
    ELSE LET h == text_and_expr(Head(o))
         IN  IF ~h.ok THEN h
             ELSE IF h.v THEN Ok(TRUE)
             ELSE AnyBranch(Tail(o))
\* map over None raises TypeError; \* o is an option
text_or_expr(o) == IF o.none THEN Err(Error("TypeError")) ELSE AnyBranch(o.v)

(***************************************************************************)
(* TemplateEngine: expressions                                             *)
(***************************************************************************)
index_list(il, ctx, data) ==
    Simplified([i \in 1..Len(il) |-> name(il[i], ctx, data)], FALSE)
array(a, ctx, data) ==
    alter_f2(a, "name", name(a.name, ctx, data), "index", index_list(a.index, ctx, data))
var(v, ctx, data) == alter_f(v, "name", name(v.name, ctx, data))
ref(s, ctx, data) == IF s.k = "array" THEN array(s, ctx, data) ELSE var(s, ctx, data)
rvalue(v, ctx, data) == IF v.k = "ref" THEN alter_f(v, "ref", ref(v.ref, ctx, data)) ELSE Ok(v)
expr(e, ctx, data) ==
    IF e.k = "val" THEN alter_f(e, "val", rvalue(e.val, ctx, data))
    ELSE alter_f2(e, "lhs", rvalue(e.lhs, ctx, data), "rhs", rvalue(e.rhs, ctx, data))
comp_expr(c, ctx, data) ==
    alter_f2(c, "lhs", expr(c.lhs, ctx, data), "rhs", expr(c.rhs, ctx, data))

\* mutant: the leftmost list varies fastest
RECURSIVE product_leftmost_fastest(_)
product_leftmost_fastest(lists) ==
    IF lists = <<>> THEN << <<>> >>
    ELSE LET rest == product_leftmost_fastest(Tail(lists))
         IN  Concat([j \in 1..Len(rest) |->
                        [i \in 1..Len(Head(lists)) |-> <<Head(lists)[i]>> \o rest[j]]])
\* itertools.product (*lists): the rightmost list varies fastest
RECURSIVE product(_)
product(lists) ==
    IF lists = <<>> THEN << <<>> >>
    ELSE LET rest == product(Tail(lists))
         IN  Concat([i \in 1..Len(Head(lists)) |->
                        [j \in 1..Len(rest) |-> <<Head(lists)[i]>> \o rest[j]]])

(***************************************************************************)
(* TemplateEngine: formulas, and TemplateInstanceGenerator.instances       *)
(***************************************************************************)
RECURSIVE instances(_, _, _), eval_cond(_, _, _), Filtered(_, _, _, _),
          forall_expr(_, _, _), bool_expr(_, _, _), and_expr(_, _, _),
          AndElem(_, _, _), AndInstances(_, _, _), and_expr_with_nested_or(_, _, _),
          NestedAndElem(_, _, _), NestedInstances(_, _, _), or_expr(_, _, _),
          OrElem(_, _, _)

\* ExpandedExprTextEval ().or_expr (expanded_cond)
Evaluated(expanded_cond) ==
    IF expanded_cond.ok THEN text_or_expr(expanded_cond) ELSE expanded_cond
eval_cond(tpl_decl, context, data) ==
    IF tpl_decl.cond.none THEN Ok(TRUE)
    ELSE Evaluated(or_expr(tpl_decl.cond.v, context, data))

\* if eval_cond (instance): yield instance, then the following sub-instances
Kept(instance, keep, more) ==
    IF ~keep.ok THEN Gen(<<>>, keep.e)
    ELSE Gen((IF keep.v THEN <<instance>> ELSE <<>>) \o more.insts, more.err)
\* mutant: the instance yielded is the new bindings, without the outer context
RECURSIVE Filtered_new_only(_, _, _, _)
Filtered_new_only(tpl_decl, context, subs, data) ==
    IF subs.insts = <<>> THEN Gen(<<>>, subs.err)
    ELSE Kept(Head(subs.insts),
              eval_cond(tpl_decl, context \o Head(subs.insts), data),
              Filtered_new_only(tpl_decl, context, Gen(Tail(subs.insts), subs.err), data))
\* for sub_instance in recursive_generator (...): if eval_cond (instance): yield instance
Filtered(tpl_decl, context, subs, data) ==
    IF subs.insts = <<>> THEN Gen(<<>>, subs.err)
    ELSE Kept(context \o Head(subs.insts),
              eval_cond(tpl_decl, context \o Head(subs.insts), data),
              Filtered(tpl_decl, context, Gen(Tail(subs.insts), subs.err), data))

\* mutant: without a declaration nothing is yielded
instances_none(tpl_decl, context, data) ==
    IF tpl_decl.none THEN Gen(<<>>, NoErr)
    ELSE Filtered(tpl_decl.v, context,
                  recursive_generator(IF tpl_decl.v.args.none THEN <<>> ELSE tpl_decl.v.args.v,
                                      context, data),
                  data)
instances(tpl_decl, context, data) ==
    IF tpl_decl.none THEN Gen(<<context>>, NoErr)
    ELSE Filtered(tpl_decl.v, context,
                  recursive_generator(IF tpl_decl.v.args.none THEN <<>> ELSE tpl_decl.v.args.v,
                                      context, data),
                  data)

forall_expr(f, ctx, data) ==
    IF f.k = "comp" THEN alter_f(f, "comp", comp_expr(f.comp, ctx, data))
    ELSE alter_f(f, "expr", or_expr(f.expr, ctx, data))
bool_expr(e, ctx, data) ==
    IF e.k = "forall" THEN alter_f(e, "forall", forall_expr(e.forall, ctx, data))
    ELSE alter_f(e, "comp", comp_expr(e.comp, ctx, data))

\* for instance in gen: generated.extend (self.and_expr (body, instance))
AndInstances(gen, body, data) ==
    Collect([i \in 1..Len(gen.insts) |-> Extendable(and_expr(body, gen.insts[i], data))],
            gen.err)
\* mutant: a parenthesized OR adds nothing
AndElem_or_skipped(and_elem, ctx, data) ==
    CASE and_elem.k = "expr" -> Appended(bool_expr(and_elem.expr, ctx, data))
      [] and_elem.k = "template" ->
            Extended(AndInstances(instances(and_elem.decl, ctx, data), and_elem.expr, data))
      [] and_elem.k = "or_expr" -> Ok(<<>>)
\* what one element of an AND not nested in an OR adds to generated
AndElem(and_elem, ctx, data) ==
    CASE and_elem.k = "expr" -> Appended(bool_expr(and_elem.expr, ctx, data))
      [] and_elem.k = "template" ->
            Extended(AndInstances(instances(and_elem.decl, ctx, data), and_elem.expr, data))
      \* the message is built with line_number (a), the line the parser
      \* recorded for the AND
      [] and_elem.k = "or_expr" -> Err(Error("nested-or"))
and_expr(a, ctx, data) ==
    SimplifiedConcat([i \in 1..Len(a) |-> AndElem(a[i], ctx, data)], FALSE)

\* for instance in gen:
\*     nested_or_exprs.append (self.and_expr_with_nested_or (body, instance))
NestedInstances(gen, body, data) ==
    Collect([i \in 1..Len(gen.insts) |-> and_expr_with_nested_or(body, gen.insts[i], data)],
            gen.err)
\* bool_expr_list.append (r), nested_or_exprs.append (r), and the same for
\* every r of a collected loop
ToBoolExprList(r) == IF r.ok THEN Ok([b |-> <<r>>, n |-> <<>>]) ELSE r
ToNestedOrExprs(r) == IF r.ok THEN Ok([b |-> <<>>, n |-> <<r>>]) ELSE r
AllToNestedOrExprs(c) == IF c.ok THEN Ok([b |-> <<>>, n |-> Somes(c.v)]) ELSE c
\* what one element of an AND nested in an OR adds to bool_expr_list (b)
\* and to nested_or_exprs (n)
NestedAndElem(and_elem, ctx, data) ==
    CASE and_elem.k = "expr" -> ToBoolExprList(bool_expr(and_elem.expr, ctx, data))
      [] and_elem.k = "template" ->
            AllToNestedOrExprs(NestedInstances(instances(and_elem.decl, ctx, data),
                                               and_elem.expr, data))
      [] and_elem.k = "or_expr" -> ToNestedOrExprs(or_expr(and_elem.or_expr, ctx, data))
\* the end of and_expr_with_nested_or, given what the loop gathered:
\* [sum (and_expr_combination_list, bool_expr_list)
\*     for and_expr_combination_list in itertools.product (*nested_or_exprs)]
Combined(bool_expr_list, nested_or_exprs) ==
    LET combinations == product(nested_or_exprs)
    IN  Ok([i \in 1..Len(combinations) |-> bool_expr_list \o Concat(combinations[i])])
Gathered(rs) ==
    IF ~AllOk(rs) THEN Err(FirstErr(rs))
    ELSE Combined(simplify(Concat([i \in 1..Len(rs) |-> rs[i].v.b]), TRUE).v,
                  simplify(Concat([i \in 1..Len(rs) |-> rs[i].v.n]), TRUE).v)
and_expr_with_nested_or(a, ctx, data) ==
    Gathered([i \in 1..Len(a) |-> NestedAndElem(a[i], ctx, data)])

\* mutant: an OR iterator is expanded for its first instance only
FirstOnly(gen) == Gen(IF gen.insts = <<>> THEN <<>> ELSE <<Head(gen.insts)>>, gen.err)
OrElem_first(or_elem, ctx, data) ==
    CASE or_elem.k = "expr" -> ExtendedBy(and_expr_with_nested_or(or_elem.expr, ctx, data))
      [] or_elem.k = "template" ->
            Extended(NestedInstances(FirstOnly(instances(or_elem.decl, ctx, data)),
                                     or_elem.expr, data))
\* what one element of an OR adds to generated
OrElem(or_elem, ctx, data) ==
    CASE or_elem.k = "expr" -> ExtendedBy(and_expr_with_nested_or(or_elem.expr, ctx, data))
      [] or_elem.k = "template" ->
            Extended(NestedInstances(instances(or_elem.decl, ctx, data), or_elem.expr, data))
or_expr(o, ctx, data) ==
    SimplifiedConcat([i \in 1..Len(o) |-> OrElem(o[i], ctx, data)], FALSE)

(***************************************************************************)
(* Raw AST: transitions, declarations, types, init/invariant/unsafe        *)
(***************************************************************************)
\* a case: cond is "_" (wild) or an AND expression
Case(cond, e) == [wild |-> FALSE, cond |-> cond, expr |-> e]
WildCase(e) == [wild |-> TRUE, cond |-> <<>>, expr |-> e]
CaseElem(c) == [k |-> "case", case |-> c]
CaseTemplate(decl, case_list) == [k |-> "template", decl |-> decl, case_list |-> case_list]
SwitchValue(sw) == [k |-> "switch", switch |-> sw]
ExprValue(e) == [k |-> "expr", expr |-> e]
RandValue == [k |-> "rand", rand |-> <<"?">>]
Assign(l, r) == [lhs |-> l, rhs |-> r]
AssignElem(a) == [k |-> "assign", assign |-> a]
UpdateTemplate(decl, updates) == [k |-> "template", decl |-> decl, updates |-> updates]
Transition(decl, n, procs, require, updates) ==
    [decl |-> decl, name |-> n, procs |-> procs, require |-> require, updates |-> updates]
VarDecl(decl, kind, n, typename) ==
    [decl |-> decl, kind |-> kind, name |-> n, typename |-> typename]
EnumName(n) == [k |-> "name", name |-> n]
EnumTemplate(decl, enum) == [k |-> "template", decl |-> decl, enum |-> enum]
TypeDef(n, enum) == [name |-> n, enum |-> enum]
ProcExprConstruct(decl, procs, o) == [decl |-> decl, procs |-> procs, expr |-> o]
Model(size_proc, types, decls, init, invariants, unsafes, transitions) ==
    [size_proc |-> size_proc, types |-> types, decls |-> decls, init |-> init,
     invariants |-> invariants, unsafes |-> unsafes, transitions |-> transitions]

(***************************************************************************)
(* TemplateEngine: transitions, declarations, types, constructs, run       *)
(***************************************************************************)
RECURSIVE switch(_, _, _), SwitchElem(_, _, _), SwitchInstances(_, _, _),
          update_list(_, _, _), UpdateElem(_, _, _), UpdateInstances(_, _, _),
          type_enum_list(_, _, _), EnumElem(_, _, _), EnumInstances(_, _, _)

case(c, ctx, data) ==
    IF c.wild THEN alter_f(c, "expr", expr(c.expr, ctx, data))
    ELSE alter_f2(c, "cond", and_expr(c.cond, ctx, data), "expr", expr(c.expr, ctx, data))
\* for instance in gen: generated.extend (self.switch (case_list, instance))
SwitchInstances(gen, case_list, data) ==
    Collect([i \in 1..Len(gen.insts) |-> Extendable(switch(case_list, gen.insts[i], data))],
            gen.err)
SwitchElem(c, ctx, data) ==
    IF c.k = "case" THEN Appended(case(c.case, ctx, data))
    ELSE Extended(SwitchInstances(instances(c.decl, ctx, data), c.case_list, data))
switch(sw, ctx, data) ==
    SimplifiedConcat([i \in 1..Len(sw) |-> SwitchElem(sw[i], ctx, data)], FALSE)
assign_value(v, ctx, data) ==
    CASE v.k = "switch" -> alter_f(v, "switch", switch(v.switch, ctx, data))
      [] v.k = "expr" -> alter_f(v, "expr", expr(v.expr, ctx, data))
      [] v.k = "rand" -> Ok(v)
assign(u, ctx, data) ==
    alter_f2(u, "lhs", ref(u.lhs, ctx, data), "rhs", assign_value(u.rhs, ctx, data))
\* for instance in gen: generated.extend (self.update_list (updates, instance))
UpdateInstances(gen, updates, data) ==
    Collect([i \in 1..Len(gen.insts) |->
                Extendable(update_list(updates, gen.insts[i], data))],
            gen.err)
UpdateElem(u, ctx, data) ==
    IF u.k = "assign" THEN Appended(assign(u.assign, ctx, data))
    ELSE Extended(UpdateInstances(instances(u.decl, ctx, data), u.updates, data))
update_list(l, ctx, data) ==
    SimplifiedConcat([i \in 1..Len(l) |-> UpdateElem(l[i], ctx, data)], FALSE)

\* mutant: a None guard is kept as a formula without branches
Required_empty(t, require) ==
    IF ~require.ok THEN require
    ELSE Ok([t EXCEPT !.require = Some(IF require.none THEN <<>> ELSE require.v)])
\* alter (t, require = require) keeps a None guard; a None name or update
\* list removes the transition
Required(t, require) ==
    IF ~require.ok THEN require
    ELSE Ok([t EXCEPT !.require = IF require.none THEN Nothing ELSE Some(require.v)])
AlteredTransition(t, named, updated) ==
    IF ~t.ok THEN t ELSE alter_f2(t.v, "name", named, "updates", updated)
transition(t, ctx, data) ==
    AlteredTransition(Required(t, or_expr(t.require, ctx, data)),
                      name(t.name, ctx, data), update_list(t.updates, ctx, data))

\* for instance in gen: generated.append (self.transition (t, instance))
TransitionInstances(t, gen, data) ==
    CollectAppended([j \in 1..Len(gen.insts) |-> transition(t, gen.insts[j], data)], gen.err)
transitions(ts, data) ==
    SimplifiedConcat([i \in 1..Len(ts) |->
                         TransitionInstances(ts[i], instances(ts[i].decl, empty, data), data)],
                     TRUE)

decl(d, ctx, data) == alter_f(d, "name", ref(d.name, ctx, data))
\* mutant: only the first instance of the declaration is expanded
DeclInstances_first_only(d, gen, data) ==
    CollectAppended([j \in 1..(IF gen.insts = <<>> THEN 0 ELSE 1) |->
                        decl(d, gen.insts[j], data)], gen.err)
\* for instance in gen: generated.append (self.decl (d, instance))
DeclInstances(d, gen, data) ==
    CollectAppended([j \in 1..Len(gen.insts) |-> decl(d, gen.insts[j], data)], gen.err)
decls(ds, data) ==
    SimplifiedConcat([i \in 1..Len(ds) |->
                         DeclInstances(ds[i], instances(ds[i].decl, empty, data), data)],
                     TRUE)

\* for instance in gen: generated.extend (self.type_enum_list (enum, instance))
EnumInstances(gen, enum, data) ==
    Collect([i \in 1..Len(gen.insts) |-> type_enum_list(enum, gen.insts[i], data)], gen.err)
EnumElem(e, ctx, data) ==
    IF e.k = "name" THEN Appended(name(e.name, ctx, data))
    ELSE Extended(EnumInstances(instances(e.decl, ctx, data), e.enum, data))
type_enum_list(enum_list, ctx, data) ==
    SimplifiedConcat([i \in 1..Len(enum_list) |-> EnumElem(enum_list[i], ctx, data)], TRUE)
type_def(t, ctx, data) == alter_f(t, "enum", type_enum_list(t.enum, ctx, data))
types(ts, data) ==
    Simplified([i \in 1..Len(ts) |-> type_def(ts[i], empty, data)], TRUE)

proc_expr_construct(construct, ctx, data) ==
    alter_f(construct, "expr", or_expr(construct.expr, ctx, data))
\* for instance in gen: generated.append (self.proc_expr_construct (c, instance))
ConstructInstances(c, gen, data) ==
    CollectAppended([j \in 1..Len(gen.insts) |-> proc_expr_construct(c, gen.insts[j], data)],
            gen.err)
proc_expr_construct_list(constructs, data) ==
    SimplifiedConcat([i \in 1..Len(constructs) |->
                         ConstructInstances(constructs[i],
                                            instances(constructs[i].decl, empty, data), data)],
                     TRUE)

\* alter (self.ast, types = ..., ...): the keyword arguments were evaluated
\* in order (rs); the init of the expanded tree is an option
Altered(node, rs) ==
    IF ~AllOk(rs) THEN Err(FirstErr(rs))
    ELSE Ok([node EXCEPT !.types = rs[1].v, !.decls = rs[2].v,
                         !.init = IF rs[3].none THEN Nothing ELSE Some(rs[3].v),
                         !.invariants = rs[4].v, !.unsafes = rs[5].v,
                         !.transitions = rs[6].v])
run(raw, data) ==
    Altered(raw, << types(raw.types, data),
                    decls(raw.decls, data),
                    proc_expr_construct(raw.init, empty, data),
                    proc_expr_construct_list(raw.invariants, data),
                    proc_expr_construct_list(raw.unsafes, data),
                    transitions(raw.transitions, data) >>)

(***************************************************************************)
(* Printer: CommonExprPrinter with ExpandedExprPrinter, ExpandedAstPrinter *)
(***************************************************************************)
RECURSIVE print_forall_expr(_), print_bool_expr(_), print_and_expr(_), print_or_expr(_)

print_name(n) == n
print_array(a) ==
    print_name(a.name) \o <<"[">>
        \o Join(<<",", " ">>, [i \in 1..Len(a.index) |-> print_name(a.index[i])]) \o <<"]">>
print_ref(s) == IF s.k = "array" THEN print_array(s) ELSE print_name(s.name)
print_rvalue(v) == IF v.k = "ref" THEN print_ref(v.ref) ELSE v.const
print_expr(e) ==
    IF e.k = "val" THEN print_rvalue(e.val)
    ELSE print_rvalue(e.lhs) \o <<" ">> \o e.op \o <<" ">> \o print_rvalue(e.rhs)
print_comp_expr(c) == print_expr(c.lhs) \o <<" ">> \o c.op \o <<" ">> \o print_expr(c.rhs)
print_forall_expr(f) ==
    IF f.k = "comp"
    THEN <<"f", "o", "r", "a", "l", "l", "_", "o", "t", "h", "e", "r", " ">> \o f.proc \o <<".", " ">> \o print_comp_expr(f.comp)
    ELSE <<"f", "o", "r", "a", "l", "l", "_", "o", "t", "h", "e", "r", " ">> \o f.proc \o <<".", " ", "(">> \o print_or_expr(f.expr) \o <<")">>
print_bool_expr(e) ==
    IF e.k = "forall" THEN print_forall_expr(e.forall) ELSE print_comp_expr(e.comp)
print_and_expr(a) == Join(<<" ", "&", "&", " ">>, [i \in 1..Len(a) |-> print_bool_expr(a[i])])
print_or_expr(o) == Join(<<" ", "|", "|", " ">>, [i \in 1..Len(o) |-> print_and_expr(o[i])])

\* line (fmt, *args): the text handed to stream.write
line(text) == text \o <<"\n">>
line_proc_expr_construct(c, keyword) ==
    line(keyword \o <<" ", "(">> \o Join(<<" ">>, c.procs) \o <<")", " ", "{", " ">>
         \o print_or_expr(c.expr) \o <<" ", "}">>)

CaseLine(c) ==
    IF c.wild THEN line(<<"\t", "\t", "|", " ", "_", " ", ":", " ">> \o print_expr(c.expr))
    ELSE line(<<"\t", "\t", "|", " ">> \o print_and_expr(c.cond) \o <<" ", ":", " ">> \o print_expr(c.expr))
UpdateLines(u) ==
    CASE u.rhs.k = "switch" ->
            <<line(<<"\t">> \o print_ref(u.lhs) \o <<" ", ":", "=", " ", "c", "a", "s", "e">>)>>
              \o [i \in 1..Len(u.rhs.switch) |-> CaseLine(u.rhs.switch[i])]
              \o <<line(<<"\t", ";">>)>>
      [] u.rhs.k = "expr" ->
            <<line(<<"\t">> \o print_ref(u.lhs) \o <<" ", ":", "=", " ">> \o print_expr(u.rhs.expr) \o <<";">>)>>
      [] u.rhs.k = "rand" ->
            <<line(<<"\t">> \o print_ref(u.lhs) \o <<" ", ":", "=", " ", "?", ";">>)>>
TransitionLines(t) ==
    <<line(<<"t", "r", "a", "n", "s", "i", "t", "i", "o", "n", " ">> \o t.name \o <<" ", "(">> \o Join(<<" ">>, t.procs) \o <<")">>)>>
      \o (IF ~t.require.none
          THEN <<line(<<"\t", "r", "e", "q", "u", "i", "r", "e", "s", " ", "{", " ">> \o print_or_expr(t.require.v) \o <<" ", "}">>)>>
          ELSE <<>>)
      \o <<line(<<"{">>)>>
      \o Concat([i \in 1..Len(t.updates) |-> UpdateLines(t.updates[i])])
      \o <<line(<<"}">>)>>
TypeLine(t) == line(<<"t", "y", "p", "e", " ">> \o t.name \o <<" ", "=", " ">> \o Join(<<" ", "|", " ">>, t.enum))
DeclLine(d) == line(d.kind \o <<" ">> \o print_ref(d.name) \o <<" ", ":", " ">> \o d.typename)

\* mutant: the declarations are written before the types
write_decls_first(ast) ==
    LET before == (IF ~ast.size_proc.none THEN <<line(<<"n", "u", "m", "b", "e", "r", "_", "p", "r", "o", "c", "s", " ">> \o ast.size_proc.v)>> ELSE <<>>)
                    \o [i \in 1..Len(ast.decls) |-> DeclLine(ast.decls[i])]
                    \o [i \in 1..Len(ast.types) |-> TypeLine(ast.types[i])]
    IN  IF ast.init.none THEN [lines |-> before, err |-> Error("AttributeError")]
        ELSE [lines |-> before
                  \o <<line_proc_expr_construct(ast.init.v, <<"i", "n", "i", "t">>)>>
                  \o [i \in 1..Len(ast.invariants) |->
                         line_proc_expr_construct(ast.invariants[i], <<"i", "n", "v", "a", "r", "i", "a", "n", "t">>)]
                  \o [i \in 1..Len(ast.unsafes) |->
                         line_proc_expr_construct(ast.unsafes[i], <<"u", "n", "s", "a", "f", "e">>)]
                  \o Concat([i \in 1..Len(ast.transitions) |-> TransitionLines(ast.transitions[i])]),
              err |-> NoErr]

\* ExpandedAstPrinter.write: the texts written to the stream, in order, and
\* the exception that ends the writing (s.procs of a None init raises
\* AttributeError)
write(ast) ==
    LET before == (IF ~ast.size_proc.none THEN <<line(<<"n", "u", "m", "b", "e", "r", "_", "p", "r", "o", "c", "s", " ">> \o ast.size_proc.v)>> ELSE <<>>)
                    \o [i \in 1..Len(ast.types) |-> TypeLine(ast.types[i])]
                    \o [i \in 1..Len(ast.decls) |-> DeclLine(ast.decls[i])]
    IN  IF ast.init.none THEN [lines |-> before, err |-> Error("AttributeError")]
        ELSE [lines |-> before
                  \o <<line_proc_expr_construct(ast.init.v, <<"i", "n", "i", "t">>)>>
                  \o [i \in 1..Len(ast.invariants) |->
                         line_proc_expr_construct(ast.invariants[i], <<"i", "n", "v", "a", "r", "i", "a", "n", "t">>)]
                  \o [i \in 1..Len(ast.unsafes) |->
                         line_proc_expr_construct(ast.unsafes[i], <<"u", "n", "s", "a", "f", "e">>)]
                  \o Concat([i \in 1..Len(ast.transitions) |-> TransitionLines(ast.transitions[i])]),
              err |-> NoErr]

(***************************************************************************)
(* State                                                                   *)
(***************************************************************************)
VARIABLES
    ast,        \* TemplateEngine.ast: the raw AST the compiler was built from
    data,       \* TemplateInstanceGenerator.data: the Data Environment
    call,       \* the last call of a function of the engine: name and arguments
    ret,        \* what that call returned (or yielded and raised)
    pc,         \* position of Compiler.run
    expanded,   \* outcome of TemplateEngine.run in the current Compiler.run
    stream,     \* the characters the output stream (cout) has received
    pending,    \* the texts ExpandedAstPrinter.write has still to write
    printed,    \* what ExpandedExprPrinter.or_expr returned for the last formula
    error,      \* the exception that ended Compiler.run
    heap,       \* the objects of the interpreter, by identity
    stack,      \* the calls of the engine that are still to be made
    driver      \* the state of main: arguments, position, files, checker
vars == <<ast, data, call, ret, pc, expanded, stream, pending, printed, error,
          heap, stack, driver>>
\* the state of the step-by-step models below
small == <<heap, stack, driver>>

(***************************************************************************)
(* Bounded inputs                                                          *)
(***************************************************************************)
MaxColl == 2    \* elements of a collection of the Data Environment
MaxArgs == 2    \* references of a template declaration

SeqsUpTo(S, n) == UNION {[1..m -> S] : m \in 0..n}

sT == <<"T">>
sE == <<"E">>
sd == <<"d">>
TextKeys == {<<"A">>, <<"B">>}
NumKeys == {9, 10}
TextLists == {List([i \in 1..Len(l) |-> Str(l[i])]) : l \in SeqsUpTo(TextKeys, MaxColl)}
NumLists == {List([i \in 1..Len(l) |-> Num(l[i])]) : l \in SeqsUpTo(NumKeys, MaxColl)}
\* mappings key -> {"d": [...]}, in every native order of distinct keys
DepValues == {Map(<<Item(sd, List([i \in 1..Len(l) |-> Str(l[i])]))>>) : l \in SeqsUpTo(TextKeys, 1)}
DepMaps ==
    {Map([i \in 1..Len(ks) |-> Item(ks[i], vs[i])]) :
        <<ks, vs>> \in UNION {{kv \in [1..m -> TextKeys] \X [1..m -> DepValues] :
                                  \A i, j \in 1..m : i # j => kv[1][i] # kv[1][j]} :
                              m \in 0..MaxColl}}
Colls == TextLists \cup NumLists \cup DepMaps
\* {"T": <collection>, "E": []}
DataEnv(c) == Map(<<Item(sT, c), Item(sE, List(<<>>))>>)

Lit(text) == Name(<<text>>, <<>>)
\* k@n@
KName(n) == Name(<<<<"k">>, <<>>>>, <<KeyRef(n)>>)
EQ == <<"=">>
NE == <<"<", ">">>
CmpNames(n1, op, n2) == BoolComp(Comp(Val(RefVal(Var(n1))), op, Val(RefVal(Var(n2)))))
PlainAnd(es) == Plain([i \in 1..Len(es) |-> Plain(es[i])])
CondExprs ==
    { <<PlainAnd(<<CmpNames(KName(0), EQ, Lit(<<"k", "A">>))>>)>>,
      <<PlainAnd(<<CmpNames(KName(0), NE, KName(1))>>)>>,
      <<PlainAnd(<<CmpNames(KName(0), EQ, Lit(<<"k", "A">>))>>),
        PlainAnd(<<CmpNames(KName(1), EQ, Lit(<<"k", "B">>))>>)>>,
      <<PlainAnd(<<CmpNames(KName(0), NE, Lit(<<"k", "A">>)),
                   CmpNames(KName(1), NE, Lit(<<"k", "9">>))>>)>>,
      <<PlainAnd(<<CmpNames(KName(1), NE, Lit(<<"k", "1", "0">>))>>)>> }
Refs == {ArgRef(sT), ArgRef(sE), KeyRef(0), FieldRef(0, sd), FieldRef(1, sd)}
TplDecls ==
    {Some(TplDecl(Some(args), cond)) :
        args \in SeqsUpTo(Refs, MaxArgs), cond \in {Nothing} \cup {Some(c) : c \in CondExprs}}
    \cup {Nothing}
\* the contexts a declaration is expanded in: the empty one, and the
\* instances of an enclosing @T@
Contexts(d) ==
    LET outer == instances(Some(TplDecl(Some(<<ArgRef(sT)>>), Nothing)), empty, d).insts
    IN  {empty} \cup {outer[i] : i \in 1..Len(outer)}

NoCall == [f |-> "none"]
Idle ==
    /\ call = NoCall /\ ret = NoCall /\ pc = "idle" /\ expanded = NoCall
    /\ stream = <<>> /\ pending = [lines |-> <<>>, err |-> NoErr]
    /\ printed = Nothing /\ error = NoErr
    /\ heap = <<>> /\ stack = <<>> /\ driver = NoCall

(***************************************************************************)
(* Calls of TemplateInstanceGenerator.instances                            *)
(***************************************************************************)
InitInstances ==
    /\ data \in {DataEnv(c) : c \in Colls}
    /\ ast = NoCall
    /\ Idle

CallInstances ==
    \E tpl_decl \in TplDecls, context \in Contexts(data) :
        /\ call = NoCall
        /\ call' = [f |-> "instances", tpl_decl |-> tpl_decl, context |-> context]
        /\ ret' = instances(tpl_decl, context, data)
        /\ UNCHANGED <<small, ast, data, pc, expanded, stream, pending, printed, error>>

NextInstances == CallInstances
SpecInstances == InitInstances /\ [][NextInstances]_vars

(***************************************************************************)
(* Calls of expand, name and instances on references that may not resolve  *)
(***************************************************************************)
MaxIndex == 2   \* index of a key-reference or field-reference

sZ == <<"Z">>
\* no root key at all; T a sequence, a mapping, or a scalar leaf (text,
\* number, boolean, null)
LookupData ==
    {Map(<<>>)}
    \cup {DataEnv(c) : c \in { List(<<>>),
                               List(<<Str(<<"B">>), Str(<<"A">>)>>),
                               Map(<<Item(<<"B">>, Map(<<Item(sd, List(<<Str(<<"A">>)>>))>>)),
                                     Item(<<"A">>, Map(<<Item(sd, Num(9))>>))>>),
                               Str(<<"B", "A">>), Num(9), Bool(TRUE), Null }}
LookupRefs ==
    {ArgRef(sT), ArgRef(sE), ArgRef(sZ)}
    \cup {KeyRef(n) : n \in 0..MaxIndex}
    \cup {FieldRef(n, sd) : n \in 0..MaxIndex}
LookupDecls ==
    {Some(TplDecl(Some(args), Nothing)) : args \in SeqsUpTo(LookupRefs, MaxArgs) \ {<<>>}}
\* x_@r@ and @r@_v
LookupNames ==
    {Name(<<<<"x", "_">>, <<>>>>, <<r>>) : r \in LookupRefs}
    \cup {Name(<<<<>>, <<"_", "v">>>>, <<r>>) : r \in LookupRefs}
    \cup {Lit(<<"p">>)}
\* the contexts of up to two bindings of elements of T
LookupContexts(d) ==
    LET one == instances(Some(TplDecl(Some(<<ArgRef(sT)>>), Nothing)), empty, d).insts
        two == instances(Some(TplDecl(Some(<<ArgRef(sT), ArgRef(sT)>>), Nothing)), empty, d).insts
    IN  {empty} \cup {one[i] : i \in 1..Len(one)} \cup {two[i] : i \in 1..Len(two)}

InitLookup ==
    /\ data \in LookupData
    /\ ast = NoCall
    /\ Idle

CallExpand ==
    \E tpl \in LookupRefs, context \in LookupContexts(data) :
        /\ call = NoCall
        /\ call' = [f |-> "expand", tpl |-> tpl, context |-> context]
        /\ ret' = expand(tpl, context, data)
        /\ UNCHANGED <<small, ast, data, pc, expanded, stream, pending, printed, error>>

CallName ==
    \E name_parts \in LookupNames, context \in LookupContexts(data) :
        /\ call = NoCall
        /\ call' = [f |-> "name", name_parts |-> name_parts, context |-> context]
        /\ ret' = name(name_parts, context, data)
        /\ UNCHANGED <<small, ast, data, pc, expanded, stream, pending, printed, error>>

CallInstancesInContext ==
    \E tpl_decl \in LookupDecls, context \in LookupContexts(data) :
        /\ call = NoCall
        /\ call' = [f |-> "instances", tpl_decl |-> tpl_decl, context |-> context]
        /\ ret' = instances(tpl_decl, context, data)
        /\ UNCHANGED <<small, ast, data, pc, expanded, stream, pending, printed, error>>

NextLookup == CallExpand \/ CallName \/ CallInstancesInContext
SpecLookup == InitLookup /\ [][NextLookup]_vars

(***************************************************************************)
(* Calls of the formula expansion, and printing of the expanded formula    *)
(***************************************************************************)
MaxAnd == 2     \* elements of an AND expression

DT == Some(TplDecl(Some(<<ArgRef(sT)>>), Nothing))
DE == Some(TplDecl(Some(<<ArgRef(sE)>>), Nothing))
ONE == <<"1">>
\* p = 1, q = 1, x_@0@ = 1
AtomP == BoolComp(Comp(Val(RefVal(Var(Lit(<<"p">>)))), EQ, Val(Const(ONE))))
AtomQ == BoolComp(Comp(Val(RefVal(Var(Lit(<<"q">>)))), EQ, Val(Const(ONE))))
AtomX == BoolComp(Comp(Val(RefVal(Var(Name(<<<<"x", "_">>, <<>>>>, <<KeyRef(0)>>)))),
                       EQ, Val(Const(ONE))))
POrQ == <<PlainAnd(<<AtomP>>), PlainAnd(<<AtomQ>>)>>
OrBodies ==
    { POrQ,
      <<Template(DT, <<Plain(AtomX)>>)>>,
      <<PlainAnd(<<AtomQ>>), Template(DE, <<Plain(AtomP)>>)>>,
      <<Template(DE, <<Plain(AtomP)>>)>> }
IterBodies == {<<Plain(AtomX)>>, <<NestedOr(POrQ)>>, <<Plain(AtomX), NestedOr(POrQ)>>}
AndElems ==
    {Plain(e) : e \in {AtomP, AtomQ, AtomX}}
    \cup {NestedOr(o) : o \in OrBodies}
    \cup {Template(d, body) : d \in {DT, DE}, body \in IterBodies}
AndExprs == SeqsUpTo(AndElems, MaxAnd) \ {<<>>}
\* OR expressions: one AND expression or OR iterator, or two short ones
OrIterators ==
    {Template(d, body) : d \in {DT, DE},
                         body \in IterBodies \cup {<<Plain(AtomX), Plain(AtomP)>>}}
ShortOrElems == {Plain(<<e>>) : e \in AndElems} \cup OrIterators
OrExprs ==
    {<<Plain(a)>> : a \in AndExprs}
    \cup {<<e>> : e \in OrIterators}
    \cup {<<e1, e2>> : e1 \in ShortOrElems, e2 \in ShortOrElems}

InitExpr ==
    /\ data \in {DataEnv(c) : c \in TextLists \cup NumLists}
    /\ ast = NoCall
    /\ Idle

CallAndExprWithNestedOr ==
    \E a \in AndExprs, ctx \in Contexts(data) :
        /\ call = NoCall
        /\ call' = [f |-> "and_expr_with_nested_or", a |-> a, ctx |-> ctx]
        /\ ret' = and_expr_with_nested_or(a, ctx, data)
        /\ UNCHANGED <<small, ast, data, pc, expanded, stream, pending, printed, error>>

CallOrExpr ==
    \E o \in OrExprs, ctx \in Contexts(data) :
        /\ call = NoCall
        /\ call' = [f |-> "or_expr", o |-> o, ctx |-> ctx]
        /\ ret' = or_expr(o, ctx, data)
        /\ UNCHANGED <<small, ast, data, pc, expanded, stream, pending, printed, error>>

\* an AND that is not nested in an OR (the condition of a case)
CallAndExpr ==
    \E a \in AndExprs, ctx \in Contexts(data) :
        /\ call = NoCall
        /\ call' = [f |-> "and_expr", a |-> a, ctx |-> ctx]
        /\ ret' = and_expr(a, ctx, data)
        /\ UNCHANGED <<small, ast, data, pc, expanded, stream, pending, printed, error>>

\* ExpandedExprPrinter.or_expr on the formula or_expr returned
PrintOrExpr ==
    /\ call.f = "or_expr" /\ ret.ok /\ ~ret.none
    /\ printed = Nothing
    /\ printed' = Some(print_or_expr(ret.v))
    /\ UNCHANGED <<small, ast, data, call, ret, pc, expanded, stream, pending, error>>

NextExpr == CallAndExprWithNestedOr \/ CallOrExpr \/ CallAndExpr \/ PrintOrExpr
SpecExpr == InitExpr /\ [][NextExpr]_vars

(***************************************************************************)
(* Evaluation of conditions that hold constructs the text evaluation does  *)
(* not allow                                                               *)
(***************************************************************************)
MaxCond == 2    \* comparisons of an AND branch, AND branches of a condition

LESS == <<"<">>
PLUS == <<"+">>
RefP == RefVal(Var(Lit(<<"p">>)))
\* k@0@ = kA and k@0@ <> kA; p + 1 = 1; p[k@0@] = 1; p < 1;
\* forall_other y. p = 1
CondAtoms ==
    { CmpNames(KName(0), EQ, Lit(<<"k", "A">>)),
      CmpNames(KName(0), NE, Lit(<<"k", "A">>)),
      BoolComp(Comp(Op(RefP, PLUS, Const(ONE)), EQ, Val(Const(ONE)))),
      BoolComp(Comp(Val(RefVal(Array(Lit(<<"p">>), <<KName(0)>>))), EQ, Val(Const(ONE)))),
      BoolComp(Comp(Val(RefP), LESS, Val(Const(ONE)))),
      BoolForall(ForallComp(<<"y">>, Comp(Val(RefP), EQ, Val(Const(ONE))))) }
RestrictedConds ==
    {[i \in 1..Len(o) |-> PlainAnd(o[i])] :
        o \in SeqsUpTo(SeqsUpTo(CondAtoms, MaxCond) \ {<<>>}, MaxCond) \ {<<>>}}
\* conditions made of iterators: an OR iterator over E, two of them, an AND
\* iterator over E, an OR iterator over T
KeyIsA == CmpNames(KName(0), EQ, Lit(<<"k", "A">>))
IteratedConds ==
    { <<Template(DE, <<Plain(KeyIsA)>>)>>,
      <<Template(DE, <<Plain(KeyIsA)>>), Template(DE, <<Plain(KeyIsA)>>)>>,
      <<Plain(<<Template(DE, <<Plain(KeyIsA)>>)>>)>>,
      <<Template(DT, <<Plain(KeyIsA)>>)>> }
Conds == RestrictedConds \cup IteratedConds

InitCond ==
    /\ data \in {DataEnv(c) : c \in TextLists}
    /\ ast = NoCall
    /\ Idle

\* eval_cond (instance) for a candidate instance of  @T | cond@
CallEvalCond ==
    \E cond \in Conds, context \in Contexts(data) \ {empty} :
        /\ call = NoCall
        /\ call' = [f |-> "eval_cond",
                    tpl_decl |-> TplDecl(Some(<<ArgRef(sT)>>), Some(cond)),
                    context |-> context]
        /\ ret' = eval_cond(call'.tpl_decl, context, data)
        /\ UNCHANGED <<small, ast, data, pc, expanded, stream, pending, printed, error>>

\* instances of  @T | cond@  in the empty context
CallInstancesIf ==
    \E cond \in Conds :
        /\ call = NoCall
        /\ call' = [f |-> "instances",
                    tpl_decl |-> Some(TplDecl(Some(<<ArgRef(sT)>>), Some(cond))),
                    context |-> empty]
        /\ ret' = instances(call'.tpl_decl, empty, data)
        /\ UNCHANGED <<small, ast, data, pc, expanded, stream, pending, printed, error>>

NextCond == CallEvalCond \/ CallInstancesIf
SpecCond == InitCond /\ [][NextCond]_vars

(***************************************************************************)
(* Compiler.run: printer.ExpandedAstPrinter ().write (cout, engine.run (data)) *)
(***************************************************************************)
MaxConstructs == 1      \* constructs of one category of the model

DZ == Some(TplDecl(Some(<<ArgRef(<<"Z">>)>>), Nothing))
procs_z == << <<"z">> >>
NameX == Name(<<<<"x", "_">>, <<>>>>, <<KeyRef(0)>>)
\* @0@_v
NameKV == Name(<<<<>>, <<"_", "v">>>>, <<KeyRef(0)>>)
TypeS == TypeDef(<<"S">>, <<EnumName(Lit(<<"A">>)), EnumTemplate(DT, <<EnumName(NameX)>>)>>)
Kind_var == <<"v", "a", "r">>
Decls ==
    { <<>>,
      <<VarDecl(Nothing, Kind_var, Var(Lit(<<"p">>)), <<"S">>)>>,
      <<VarDecl(DT, Kind_var, Var(NameX), <<"S">>)>>,
      <<VarDecl(DT, Kind_var, Var(NameKV), <<"S">>)>> }
\* init formulas: p = 1; an OR iterator over E; an OR iterator over Z, that
\* the data do not hold
Inits ==
    {ProcExprConstruct(Nothing, procs_z, o) :
        o \in { <<PlainAnd(<<AtomP>>)>>,
                <<Template(DE, <<Plain(AtomP)>>)>>,
                <<Template(DZ, <<Plain(AtomP)>>)>> }}
\* p = 1; an OR iterator; an AND iterator; the same over E; a forall over
\* an AND iterator; a construct with a declaration
Constructs ==
    {ProcExprConstruct(Nothing, procs_z, o) :
        o \in { <<PlainAnd(<<AtomP>>)>>,
                <<Template(DT, <<Plain(AtomX)>>)>>,
                <<Plain(<<Template(DT, <<Plain(AtomX)>>)>>)>>,
                <<Template(DE, <<Plain(AtomP)>>)>>,
                <<Plain(<<Template(DE, <<Plain(AtomP)>>)>>)>>,
                <<PlainAnd(<<BoolForall(ForallExpr(<<"y">>,
                                <<Plain(<<Template(DT, <<Plain(AtomX)>>)>>)>>))>>)>> }}
    \cup {ProcExprConstruct(DT, procs_z, <<PlainAnd(<<AtomX>>)>>)}
AssignP == AssignElem(Assign(Var(Lit(<<"p">>)), ExprValue(Val(Const(ONE)))))
AssignX == AssignElem(Assign(Var(NameX), RandValue))
SwitchQ ==
    AssignElem(Assign(Var(Lit(<<"q">>)),
        SwitchValue(<<CaseElem(Case(<<Plain(AtomP)>>, Val(Const(ONE)))),
                      CaseTemplate(DT, <<CaseElem(Case(<<Plain(AtomX)>>, Val(Const(ONE))))>>),
                      CaseElem(WildCase(Val(RefVal(Var(Lit(<<"q">>))))))>>)))
Transitions ==
    { Transition(Nothing, Lit(<<"t">>), procs_z, <<PlainAnd(<<AtomP>>)>>, <<AssignP, SwitchQ>>),
      Transition(Nothing, Lit(<<"t">>), procs_z, <<Template(DT, <<Plain(AtomX)>>)>>,
                 <<UpdateTemplate(DT, <<AssignX>>)>>),
      Transition(DT, NameX, procs_z, <<PlainAnd(<<AtomP>>)>>, <<AssignP>>) }
Models ==
    {Model(Nothing, ts, ds, init, is, us, trs) :
        ts \in {<<>>, <<TypeS>>},
        ds \in Decls,
        init \in Inits,
        is \in {<<>>, <<ProcExprConstruct(Nothing, procs_z, <<PlainAnd(<<AtomQ>>)>>)>>},
        us \in SeqsUpTo(Constructs, MaxConstructs),
        trs \in SeqsUpTo(Transitions, MaxConstructs)}

\* the data of a run: T empty, a list of texts, a list of a number and a
\* boolean in both orders, a text that ends with a newline, a mapping
RunData ==
    {DataEnv(c) : c \in { List(<<>>),
                          List(<<Str(<<"B">>), Str(<<"A">>)>>),
                          List(<<Num(1), Bool(TRUE)>>),
                          List(<<Bool(TRUE), Num(1)>>),
                          List(<<Str(<<"A", "\n">>)>>),
                          Map(<<Item(<<"B">>, Map(<<Item(sd, List(<<Str(<<"A">>)>>))>>)),
                                Item(<<"A">>, Map(<<Item(sd, List(<<>>))>>))>>) }}

\* after Compiler (cin): the engine holds the raw AST
Init ==
    /\ ast \in Models
    /\ data \in RunData
    /\ call = NoCall /\ ret = NoCall /\ printed = Nothing
    /\ pc = "run"
    /\ expanded = NoCall
    /\ pending = [lines |-> <<>>, err |-> NoErr]
    /\ stream = <<>>
    /\ error = NoErr
    /\ heap = <<>> /\ stack = <<>> /\ driver = NoCall

\* self.engine.run (data), the argument of write: an exception leaves
\* Compiler.run before write is called
Expand ==
    /\ pc = "run"
    /\ expanded' = run(ast, data)
    /\ pc' = IF expanded'.ok THEN "write" ELSE "failed"
    /\ error' = expanded'.e
    /\ pending' = IF expanded'.ok THEN write(expanded'.v) ELSE pending
    /\ UNCHANGED <<small, ast, data, call, ret, stream, printed>>

\* line (...): stream.write (fmt.format (*args) + "\n")
WriteLine ==
    /\ pc = "write"
    /\ pending.lines # <<>>
    /\ stream' = stream \o Head(pending.lines)
    /\ pending' = [pending EXCEPT !.lines = Tail(pending.lines)]
    /\ UNCHANGED <<small, ast, data, call, ret, pc, expanded, printed, error>>

\* write returns, and Compiler.run with it
Return ==
    /\ pc = "write"
    /\ pending.lines = <<>>
    /\ pending.err = NoErr
    /\ pc' = "done"
    /\ UNCHANGED <<small, ast, data, call, ret, expanded, stream, pending, printed, error>>

\* write raises, and Compiler.run with it
Raise ==
    /\ pc = "write"
    /\ pending.lines = <<>>
    /\ pending.err # NoErr
    /\ pc' = "failed"
    /\ error' = pending.err
    /\ UNCHANGED <<small, ast, data, call, ret, expanded, stream, pending, printed>>

Next == Expand \/ WriteLine \/ Return \/ Raise
Spec == Init /\ [][Next]_vars

(***************************************************************************)
(* Calls of the functions that expand a category of top-level constructs   *)
(***************************************************************************)
MaxTop == 2     \* constructs of the category of a call

\* a type that carries a declaration: type_def and types read its name and
\* its enum
TypeOver(d, n, enum) == [decl |-> d, name |-> n, enum |-> enum]
sR == <<"R">>
\* S; R over T with a plain entry; R over T with the entry x_@0@
TopTypes ==
    { TypeS,
      TypeOver(DT, sR, <<EnumName(Lit(<<"A">>))>>),
      TypeOver(DT, sR, <<EnumName(NameX)>>) }
\* p; x_@0@ over T; p over E; p over Z, that the data do not hold; x_@0@
\* without a declaration
TopDecls ==
    { VarDecl(Nothing, Kind_var, Var(Lit(<<"p">>)), <<"S">>),
      VarDecl(DT, Kind_var, Var(NameX), <<"S">>),
      VarDecl(DE, Kind_var, Var(Lit(<<"p">>)), <<"S">>),
      VarDecl(DZ, Kind_var, Var(Lit(<<"p">>)), <<"S">>),
      VarDecl(Nothing, Kind_var, Var(NameX), <<"S">>) }
\* p = 1; x_@0@ = 1 over T; an OR iterator over E, with and without a
\* declaration over T
TopConstructs ==
    { ProcExprConstruct(Nothing, procs_z, <<PlainAnd(<<AtomP>>)>>),
      ProcExprConstruct(DT, procs_z, <<PlainAnd(<<AtomX>>)>>),
      ProcExprConstruct(DT, procs_z, <<Template(DE, <<Plain(AtomP)>>)>>),
      ProcExprConstruct(Nothing, procs_z, <<Template(DE, <<Plain(AtomP)>>)>>) }
\* the transitions of the models, one over T whose updates are an iterator
\* over E, one named x_@0@ without a declaration
TopTransitions ==
    Transitions
    \cup {Transition(DT, NameX, procs_z, <<PlainAnd(<<AtomP>>)>>,
                     <<UpdateTemplate(DE, <<AssignP>>)>>),
          Transition(Nothing, NameX, procs_z, <<PlainAnd(<<AtomP>>)>>, <<AssignP>>)}
\* init p = 1, without a declaration and over T; x_@0@ = 1 over T
TopInits ==
    { ProcExprConstruct(Nothing, procs_z, <<PlainAnd(<<AtomP>>)>>),
      ProcExprConstruct(DT, procs_z, <<PlainAnd(<<AtomP>>)>>),
      ProcExprConstruct(DT, procs_z, <<PlainAnd(<<AtomX>>)>>) }

InitTop ==
    /\ data \in {DataEnv(c) : c \in TextLists \cup NumLists}
    /\ ast = NoCall
    /\ Idle

CallTypes ==
    \E ts \in SeqsUpTo(TopTypes, MaxTop) :
        /\ call = NoCall
        /\ call' = [f |-> "types", constructs |-> ts]
        /\ ret' = types(ts, data)
        /\ UNCHANGED <<small, ast, data, pc, expanded, stream, pending, printed, error>>

CallDecls ==
    \E ds \in SeqsUpTo(TopDecls, MaxTop) :
        /\ call = NoCall
        /\ call' = [f |-> "decls", constructs |-> ds]
        /\ ret' = decls(ds, data)
        /\ UNCHANGED <<small, ast, data, pc, expanded, stream, pending, printed, error>>

CallProcExprConstructList ==
    \E cs \in SeqsUpTo(TopConstructs, MaxTop) :
        /\ call = NoCall
        /\ call' = [f |-> "proc_expr_construct_list", constructs |-> cs]
        /\ ret' = proc_expr_construct_list(cs, data)
        /\ UNCHANGED <<small, ast, data, pc, expanded, stream, pending, printed, error>>

CallTransitions ==
    \E trs \in SeqsUpTo(TopTransitions, MaxTop) :
        /\ call = NoCall
        /\ call' = [f |-> "transitions", constructs |-> trs]
        /\ ret' = transitions(trs, data)
        /\ UNCHANGED <<small, ast, data, pc, expanded, stream, pending, printed, error>>

\* run on a model of types and an init
CallRun ==
    \E ts \in SeqsUpTo(TopTypes, 1), init \in TopInits :
        /\ call = NoCall
        /\ call' = [f |-> "run", raw |-> Model(Nothing, ts, <<>>, init, <<>>, <<>>, <<>>)]
        /\ ret' = run(call'.raw, data)
        /\ UNCHANGED <<small, ast, data, pc, expanded, stream, pending, printed, error>>

NextTop == CallTypes \/ CallDecls \/ CallProcExprConstructList \/ CallTransitions \/ CallRun
SpecTop == InitTop /\ [][NextTop]_vars

(***************************************************************************)
(* Calls of switch and update_list                                         *)
(***************************************************************************)
MaxList == 2    \* elements of a case list or an update list

CaseP == CaseElem(Case(<<Plain(AtomP)>>, Val(Const(ONE))))
CaseX == CaseElem(Case(<<Plain(AtomX)>>, Val(Const(ONE))))
\* a case whose condition is an AND iterator over E
CaseE == CaseElem(Case(<<Template(DE, <<Plain(AtomP)>>)>>, Val(Const(ONE))))
CaseWild == CaseElem(WildCase(Val(RefVal(Var(Lit(<<"q">>))))))
\* a case whose condition is an AND iterator over T of an AND iterator over E
CaseDeep ==
    CaseElem(Case(<<Template(DT, <<Template(DE, <<Plain(AtomP)>>)>>)>>, Val(Const(ONE))))
\* plain cases; case iterators over T and E; an iterator over T of two
\* cases; iterators over T whose body is an iterator over E or T
CaseElems ==
    { CaseP, CaseX, CaseE, CaseDeep, CaseWild,
      CaseTemplate(DT, <<CaseX>>),
      CaseTemplate(DE, <<CaseP>>),
      CaseTemplate(DT, <<CaseX, CaseP>>),
      CaseTemplate(DT, <<CaseTemplate(DE, <<CaseP>>)>>),
      CaseTemplate(DT, <<CaseTemplate(DT, <<CaseX>>)>>) }
\* plain updates; update iterators over T and E; an iterator over T of two
\* updates; iterators over T whose body is an iterator over E or T
UpdateElems ==
    { AssignP, AssignX, SwitchQ,
      UpdateTemplate(DT, <<AssignX>>),
      UpdateTemplate(DE, <<AssignP>>),
      UpdateTemplate(DT, <<AssignX, AssignP>>),
      UpdateTemplate(DT, <<UpdateTemplate(DE, <<AssignP>>)>>),
      UpdateTemplate(DT, <<UpdateTemplate(DT, <<AssignX>>)>>) }

InitLists ==
    /\ data \in {DataEnv(c) : c \in TextLists \cup NumLists}
    /\ ast = NoCall
    /\ Idle

CallSwitch ==
    \E sw \in SeqsUpTo(CaseElems, MaxList) \ {<<>>}, ctx \in Contexts(data) :
        /\ call = NoCall
        /\ call' = [f |-> "switch", l |-> sw, ctx |-> ctx]
        /\ ret' = switch(sw, ctx, data)
        /\ UNCHANGED <<small, ast, data, pc, expanded, stream, pending, printed, error>>

CallUpdateList ==
    \E l \in SeqsUpTo(UpdateElems, MaxList) \ {<<>>}, ctx \in Contexts(data) :
        /\ call = NoCall
        /\ call' = [f |-> "update_list", l |-> l, ctx |-> ctx]
        /\ ret' = update_list(l, ctx, data)
        /\ UNCHANGED <<small, ast, data, pc, expanded, stream, pending, printed, error>>

NextLists == CallSwitch \/ CallUpdateList
SpecLists == InitLists /\ [][NextLists]_vars

(***************************************************************************)
(* Compiler.run on models with a process count and with equal constructs   *)
(***************************************************************************)
ConstructQ == ProcExprConstruct(Nothing, procs_z, <<PlainAnd(<<AtomQ>>)>>)
ConstructX == ProcExprConstruct(DT, procs_z, <<PlainAnd(<<AtomX>>)>>)
DeclP == VarDecl(Nothing, Kind_var, Var(Lit(<<"p">>)), <<"S">>)
DeclX == VarDecl(DT, Kind_var, Var(NameX), <<"S">>)
TransitionP ==
    Transition(Nothing, Lit(<<"t">>), procs_z, <<PlainAnd(<<AtomP>>)>>, <<AssignP, SwitchQ>>)
\* a guard that is an OR iterator over E
TransitionE ==
    Transition(Nothing, Lit(<<"t">>), procs_z, <<Template(DE, <<Plain(AtomP)>>)>>,
               <<SwitchQ, AssignP>>)
TransitionX == Transition(DT, NameX, procs_z, <<PlainAnd(<<AtomP>>)>>, <<AssignP>>)
\* updates that are an iterator over E
TransitionU ==
    Transition(Nothing, Lit(<<"u">>), procs_z, <<PlainAnd(<<AtomP>>)>>,
               <<UpdateTemplate(DE, <<AssignP>>)>>)
PrintModels ==
    {Model(size_proc, ts, ds, init, is, us, trs) :
        size_proc \in {Nothing, Some(<<"2">>)},
        ts \in {<<>>, <<TypeS, TypeS>>},
        ds \in {<<>>, <<DeclX>>, <<DeclP, DeclP>>},
        init \in Inits,
        is \in {<<>>, <<ConstructQ, ConstructQ>>},
        us \in {<<>>, <<ConstructX>>},
        trs \in {<<>>, <<TransitionP>>, <<TransitionE, TransitionP>>,
                 <<TransitionX, TransitionX>>, <<TransitionU, TransitionP>>}}
\* T without elements, with two, with the same element twice
PrintData ==
    {DataEnv(c) : c \in { List(<<>>),
                          List(<<Str(<<"B">>), Str(<<"A">>)>>),
                          List(<<Str(<<"A">>), Str(<<"A">>)>>) }}

InitPrint ==
    /\ ast \in PrintModels
    /\ data \in PrintData
    /\ call = NoCall /\ ret = NoCall /\ printed = Nothing
    /\ pc = "run"
    /\ expanded = NoCall
    /\ pending = [lines |-> <<>>, err |-> NoErr]
    /\ stream = <<>>
    /\ error = NoErr
    /\ heap = <<>> /\ stack = <<>> /\ driver = NoCall

SpecPrint == InitPrint /\ [][Next]_vars

(***************************************************************************)
(* The command-line drivers: main of ctc/compiler.py and main of            *)
(* ctc/__init__.py, the entry point that setup.py installs                  *)
(***************************************************************************)
\* the models compiled: init p = 1; an init that expands to nothing, which
\* the printer fails on; an init over Z, which the expansion fails on
MainModels == {Model(Nothing, <<>>, <<DeclP>>, init, <<>>, <<>>, <<>>) : init \in Inits}
MainData == {DataEnv(List(<<>>)), DataEnv(List(<<Str(<<"B">>), Str(<<"A">>)>>))}

\* after parse_args, json.load and Compiler (args.file). In ctc/__init__.py
\* -o has type FileType ("w"): parse_args has opened the file named
InitMain ==
    /\ ast \in MainModels
    /\ data \in MainData
    /\ call = NoCall /\ ret = NoCall /\ printed = Nothing
    /\ pc = "idle"
    /\ expanded = NoCall
    /\ pending = [lines |-> <<>>, err |-> NoErr]
    /\ stream = <<>>
    /\ error = NoErr
    /\ heap = <<>> /\ stack = <<>>
    /\ \E main \in {"compiler.main", "ctc.main"}, c \in BOOLEAN, o \in BOOLEAN :
          driver = [main |-> main, c |-> c, o |-> o, pc |-> "output",
                    out |-> IF main = "compiler.main" THEN "none"
                            ELSE IF o THEN "named" ELSE "stdout",
                    compiled |-> "none", is_tmp |-> FALSE,
                    tmp |-> "none", tmp_open |-> FALSE,
                    named |-> IF main = "ctc.main" /\ o THEN "exists" ELSE "none",
                    named_open |-> main = "ctc.main" /\ o,
                    stdout_closed |-> FALSE,
                    started |-> 0, argv_last |-> "none"]

MainUnchanged == UNCHANGED <<ast, data, call, ret, pc, pending, printed, heap, stack>>

\* compiler.main: the compiled file is CompilerOutput.from_file (args.output),
\* from_stdout () or from_tempfile ()
OpenCompiledFile ==
    /\ driver.main = "compiler.main" /\ driver.pc = "output"
    /\ driver' =
          IF driver.o
          THEN [driver EXCEPT !.pc = "compile", !.compiled = "named",
                              !.named = "exists", !.named_open = TRUE]
          ELSE IF driver.c
          THEN [driver EXCEPT !.pc = "compile", !.compiled = "stdout"]
          ELSE [driver EXCEPT !.pc = "compile", !.compiled = "tmp", !.is_tmp = TRUE,
                              !.tmp = "exists", !.tmp_open = TRUE]
    /\ UNCHANGED <<expanded, stream, error>>
    /\ MainUnchanged

\* ctc.main: with -c the output is args.output; without,
\* tempfile.mkstemp (suffix = ".cub")
MakeTempFile ==
    /\ driver.main = "ctc.main" /\ driver.pc = "output"
    /\ driver' =
          IF driver.c
          THEN [driver EXCEPT !.pc = "compile", !.compiled = driver.out]
          ELSE [driver EXCEPT !.pc = "compile", !.compiled = "tmp",
                              !.tmp = "exists", !.tmp_open = TRUE]
    /\ UNCHANGED <<expanded, stream, error>>
    /\ MainUnchanged

\* compiler.run (file, data): the lines written before an exception stay in
\* the file. In ctc.main the temporary file is closed when its with block
\* is left, and with -c main returns 0 after the compilation
Compile ==
    /\ driver.pc = "compile"
    /\ expanded' = run(ast, data)
    /\ LET written == IF expanded'.ok THEN write(expanded'.v)
                      ELSE [lines |-> <<>>, err |-> expanded'.e]
           after == IF driver.main = "compiler.main"
                    THEN (IF written.err = NoErr THEN "close" ELSE "finally")
                    ELSE IF driver.c THEN "exit"
                    ELSE (IF written.err = NoErr THEN "start" ELSE "finally")
       IN  /\ stream' = Concat(written.lines)
           /\ error' = written.err
           /\ driver' = [driver EXCEPT !.pc = after,
                                       !.tmp_open = IF driver.main = "ctc.main"
                                                    THEN FALSE ELSE driver.tmp_open]
    /\ MainUnchanged

\* file.close () on the object written to
FileClosed(d) ==
    CASE d.compiled = "tmp" -> [d EXCEPT !.tmp_open = FALSE]
      [] d.compiled = "named" -> [d EXCEPT !.named_open = FALSE]
      [] d.compiled = "stdout" -> [d EXCEPT !.stdout_closed = TRUE]

\* os.unlink (name) on the name of the compiled file
Unlinked(d) ==
    CASE d.compiled = "tmp" -> [d EXCEPT !.tmp = "deleted"]
      [] d.compiled = "named" -> [d EXCEPT !.named = "deleted"]

Closed_unguarded(d) == FileClosed(d)
\* CompilerOutput.close: if self.obj != sys.stdout and not self.obj.closed
Closed(d) ==
    IF d.compiled # "stdout" THEN FileClosed(d) ELSE d

CloseCompiled_left_open ==
    /\ driver.main = "compiler.main" /\ driver.pc = "close"
    /\ driver' = [driver EXCEPT !.pc = IF driver.c THEN "finally" ELSE "start"]
    /\ UNCHANGED <<expanded, stream, error>>
    /\ MainUnchanged

\* compiler.main: compiled_file.close (), then the checker unless -c
CloseCompiled ==
    /\ driver.main = "compiler.main" /\ driver.pc = "close"
    /\ driver' = [Closed(driver) EXCEPT !.pc = IF driver.c THEN "finally" ELSE "start"]
    /\ UNCHANGED <<expanded, stream, error>>
    /\ MainUnchanged

\* subprocess.call (["cubicle"] + cub_arg + [name of the compiled file]): it
\* returns the status of the checker, or raises OSError when the program
\* cannot be started
StartChecker ==
    /\ driver.pc = "start"
    /\ \E raised \in BOOLEAN :
          /\ driver' = [driver EXCEPT !.pc = "finally",
                                      !.started = driver.started + 1,
                                      !.argv_last = driver.compiled]
          /\ error' = IF raised THEN Error("OSError") ELSE error
    /\ UNCHANGED <<expanded, stream>>
    /\ MainUnchanged

\* compiler.main, finally: compiled_file.destroy (): close, and os.unlink
\* (self.name) if self.is_tmp
Destroy ==
    /\ driver.main = "compiler.main" /\ driver.pc = "finally"
    /\ driver' = [(IF driver.is_tmp THEN Unlinked(Closed(driver)) ELSE Closed(driver))
                     EXCEPT !.pc = "exit"]
    /\ UNCHANGED <<expanded, stream, error>>
    /\ MainUnchanged

\* ctc.main, finally: os.unlink (compiled_file_name)
Unlink ==
    /\ driver.main = "ctc.main" /\ driver.pc = "finally"
    /\ driver' = [Unlinked(driver) EXCEPT !.pc = "exit"]
    /\ UNCHANGED <<expanded, stream, error>>
    /\ MainUnchanged

NextMain ==
    \/ OpenCompiledFile \/ MakeTempFile \/ Compile \/ CloseCompiled
    \/ StartChecker \/ Destroy \/ Unlink
SpecMain == InitMain /\ [][NextMain]_vars

(***************************************************************************)
(* The calls of the engine, one at a time: the stack holds the calls that  *)
(* are still to be made, and a step makes the first of them                *)
(***************************************************************************)
Frame(f, node, ctx) == [f |-> f, node |-> node, ctx |-> ctx]

\* the elements of a loop that are visited: an exception ends the loop
Through(s, Raises(_)) ==
    LET raising == {i \in 1..Len(s) : Raises(s[i])}
    IN  IF raising = {} THEN s
        ELSE SubSeq(s, 1, CHOOSE i \in raising : \A j \in raising : i <= j)

\* for instance in self.ig.instances (decl, ctx): f (body, instance), where
\* R gives what a call returns. generated.extend raises on the None that
\* and_expr returns for nothing
IteratorCalls(f, elem, ctx, R(_)) ==
    LET gen == R(Frame("instances", elem.decl, ctx))
        Raises(c) == ~R(c).ok \/ (f = "and_expr" /\ R(c).none)
    IN  <<Frame("instances", elem.decl, ctx)>>
        \o Through([i \in 1..Len(gen.insts) |-> Frame(f, elem.expr, gen.insts[i])], Raises)

\* the calls of or_expr, of and_expr_with_nested_or and of and_expr for one
\* element of their loop
ElemCalls(f, elem, ctx, R(_)) ==
    CASE elem.k = "expr" ->
            IF f = "or_expr" THEN <<Frame("and_expr_with_nested_or", elem.expr, ctx)>>
            ELSE <<Frame("bool_expr", elem.expr, ctx)>>
      [] elem.k = "template" ->
            IteratorCalls(IF f = "and_expr" THEN f ELSE "and_expr_with_nested_or",
                          elem, ctx, R)
      [] elem.k = "or_expr" ->
            IF f = "and_expr" THEN <<>> ELSE <<Frame("or_expr", elem.or_expr, ctx)>>
\* the loop of the three functions, left at the first element that raises
LoopCalls(f, node, ctx, R(_)) ==
    LET Raises(elem) ==
            LET calls == ElemCalls(f, elem, ctx, R)
            IN  \/ f = "and_expr" /\ elem.k = "or_expr"
                \/ \E i \in 1..Len(calls) :
                       \/ ~R(calls[i]).ok
                       \/ f = "and_expr" /\ calls[i].f = f /\ R(calls[i]).none
        visited == Through(node, Raises)
    IN  Concat([i \in 1..Len(visited) |-> ElemCalls(f, visited[i], ctx, R)])

\* instances: recursive_generator (tpl_args, context), and eval_cond for
\* every sub-instance generated
InstancesCalls(tpl_decl, context, R(_)) ==
    IF tpl_decl.none THEN <<>>
    ELSE LET tpl_args == IF tpl_decl.v.args.none THEN <<>> ELSE tpl_decl.v.args.v
             generator == Frame("recursive_generator", tpl_args, context)
             subs == R(generator).insts
             Raises(c) == ~R(c).ok
         IN  <<generator>>
             \o Through([i \in 1..Len(subs) |->
                            Frame("eval_cond", tpl_decl.v, context \o subs[i])],
                         Raises)

\* mutant: the generator of the tails is called on the whole list
GeneratorCalls_same_list(tpl_list, ctx, d) ==
    IF Len(tpl_list) = 0 THEN <<>>
    ELSE LET iterable == SortedOf(NormalizedOf(expand(tpl_list[1], ctx, d)))
         IN  <<Frame("expand", tpl_list[1], ctx)>>
             \o (IF ~iterable.ok THEN <<>>
                 ELSE [i \in 1..Len(iterable.v) |->
                          Frame("recursive_generator", tpl_list,
                                ctx \o single(iterable.v[i]))])
\* recursive_generator: self.expand (tpl_list[0], ctx), and
\* recursive_generator (tpl_list[1:], ctx + head) for every head
GeneratorCalls(tpl_list, ctx, d) ==
    IF Len(tpl_list) = 0 THEN <<>>
    ELSE LET iterable == SortedOf(NormalizedOf(expand(tpl_list[1], ctx, d)))
             Raises(c) == recursive_generator(c.node, c.ctx, d).err # NoErr
         IN  <<Frame("expand", tpl_list[1], ctx)>>
             \o (IF ~iterable.ok THEN <<>>
                 ELSE Through([i \in 1..Len(iterable.v) |->
                                  Frame("recursive_generator", Tail(tpl_list),
                                        ctx \o single(iterable.v[i]))],
                              Raises))

\* what the call c returns or raises; of a generator, what it yields (insts)
\* and whether it ends without exception (ok)
Generated(gen) == [ok |-> gen.err = NoErr, none |-> FALSE, insts |-> gen.insts, e |-> gen.err]
Result(c, d) ==
    CASE c.f = "or_expr" -> or_expr(c.node, c.ctx, d)
      [] c.f = "and_expr_with_nested_or" -> and_expr_with_nested_or(c.node, c.ctx, d)
      [] c.f = "and_expr" -> and_expr(c.node, c.ctx, d)
      [] c.f = "bool_expr" -> bool_expr(c.node, c.ctx, d)
      [] c.f = "forall_expr" -> forall_expr(c.node, c.ctx, d)
      [] c.f = "comp_expr" -> comp_expr(c.node, c.ctx, d)
      [] c.f = "instances" -> Generated(instances(c.node, c.ctx, d))
      [] c.f = "eval_cond" -> eval_cond(c.node, c.ctx, d)
      [] c.f = "recursive_generator" -> Generated(recursive_generator(c.node, c.ctx, d))
      [] c.f = "expand" -> expand(c.node, c.ctx, d)

\* the calls that the call c makes, in order
Calls(c, d) ==
    LET R(q) == Result(q, d)
    IN
    CASE c.f \in {"or_expr", "and_expr_with_nested_or", "and_expr"} ->
            LoopCalls(c.f, c.node, c.ctx, R)
      [] c.f = "bool_expr" ->
            IF c.node.k = "forall" THEN <<Frame("forall_expr", c.node.forall, c.ctx)>>
            ELSE <<Frame("comp_expr", c.node.comp, c.ctx)>>
      [] c.f = "forall_expr" ->
            IF c.node.k = "comp" THEN <<Frame("comp_expr", c.node.comp, c.ctx)>>
            ELSE <<Frame("or_expr", c.node.expr, c.ctx)>>
      [] c.f = "instances" -> InstancesCalls(c.node, c.ctx, R)
      [] c.f = "eval_cond" ->
            IF c.node.cond.none THEN <<>> ELSE <<Frame("or_expr", c.node.cond.v, c.ctx)>>
      [] c.f = "recursive_generator" -> GeneratorCalls(c.node, c.ctx, d)
      \* comp_expr and expand call no function that calls them back
      [] OTHER -> <<>>

\* p = 1 || q = 1 under a quantifier; an iterator over two references with a
\* condition that iterates; an OR iterator in a parenthesized OR in an OR
\* iterator
ForallPOrQ == BoolForall(ForallExpr(<<"y">>, POrQ))
DTT == Some(TplDecl(Some(<<ArgRef(sT), ArgRef(sT)>>),
                    Some(<<Template(DT, <<Plain(KeyIsA)>>)>>)))
DeepOr == <<Template(DTT, <<NestedOr(<<Template(DT, <<Plain(AtomX), Plain(ForallPOrQ)>>)>>)>>)>>
OrRoots ==
    {Frame("or_expr", o, empty) :
        o \in {<<e>> : e \in OrIterators} \cup IteratedConds \cup {DeepOr}}
AndRoots == {Frame("and_expr", <<e>>, empty) : e \in AndElems \cup {Plain(ForallPOrQ)}}
InstancesRoots ==
    {Frame("instances", td, empty) :
        td \in {Nothing, DT, DTT,
                Some(TplDecl(Some(<<ArgRef(sT), ArgRef(sE)>>), Nothing)),
                Some(TplDecl(Nothing, Some(POrQ)))}}

InitCalls ==
    /\ data \in {DataEnv(c) : c \in TextLists \cup NumLists}
    /\ ast = NoCall
    /\ \/ call \in OrRoots
       \/ call \in AndRoots
       \/ call \in InstancesRoots
    /\ stack = <<call>>
    /\ ret = NoCall /\ expanded = NoCall
    /\ pc = 0       \* here the number of calls made
    /\ stream = <<>> /\ pending = [lines |-> <<>>, err |-> NoErr]
    /\ printed = Nothing /\ error = NoErr
    /\ heap = <<>> /\ driver = NoCall

\* one more call is made
Advance ==
    /\ stack # <<>>
    /\ pc' = pc + 1
\* the first call of the stack is made: the calls it makes are to be made
\* before the ones that follow it. The call that started the run returns
\* when the stack is empty
MakeCall ==
    /\ Advance
    /\ stack' = Calls(Head(stack), data) \o Tail(stack)
    /\ ret' = IF stack' = <<>> THEN Result(call, data) ELSE ret
    /\ UNCHANGED <<ast, data, call, expanded, stream, pending, printed, error,
                   heap, driver>>

NextCalls == MakeCall
\* the interpreter runs one thread and makes the next call as long as
\* there is one
SpecCalls == InitCalls /\ [][NextCalls]_vars /\ WF_pc(Advance)

(***************************************************************************)
(* The objects of the interpreter: the Data Environment, the raw AST and   *)
(* what the expansion allocates are objects of a heap, a variable or a     *)
(* field holds a reference to an object, and a statement that writes       *)
(* writes one object. The run modelled expands the variable node v once    *)
(* per instance of @T@:                                                     *)
(*     for instance in self.ig.instances (decl, self.ig.empty ()):         *)
(*         generated.append (self.var (v, instance))                       *)
(***************************************************************************)
Ref(id) == [t |-> "ref", id |-> id]
Tpl(tpl) == [t |-> "tpl", tpl |-> tpl]
NAME == <<"n", "a", "m", "e">>
sDep == <<"d", "e", "p">>

\* the value that a reference or an immutable value stands for
RECURSIVE Deref(_, _)
Deref(h, v) ==
    IF v.t # "ref" THEN v
    ELSE LET o == h[v.id]
         IN  IF o.t = "map"
             THEN Map([i \in 1..Len(o.items) |-> Item(o.items[i].k, Deref(h, o.items[i].v))])
             ELSE List([i \in 1..Len(o.items) |-> Deref(h, o.items[i])])

\* a new object
Alloc(h, o) == [h |-> Append(h, o), r |-> Ref(Len(h) + 1)]
\* the objects of a value, as json.load and the parser build them: one
\* object per dict and per list
RECURSIVE Store(_, _), StoreAll(_, _)
StoreAll(h, vals) ==
    IF vals = <<>> THEN [h |-> h, rs |-> <<>>]
    ELSE LET first == Store(h, Head(vals))
             rest == StoreAll(first.h, Tail(vals))
         IN  [h |-> rest.h, rs |-> <<first.r>> \o rest.rs]
Store(h, v) ==
    CASE v.t = "map" ->
            LET kids == StoreAll(h, [i \in 1..Len(v.items) |-> v.items[i].v])
            IN  Alloc(kids.h, Map([i \in 1..Len(v.items) |-> Item(v.items[i].k, kids.rs[i])]))
      [] v.t = "seq" ->
            LET kids == StoreAll(h, v.items)
            IN  Alloc(kids.h, List(kids.rs))
      [] OTHER -> [h |-> h, r |-> v]

\* mutant: the dict itself instead of a copy of it
DictOf_same(h, d) == [h |-> h, r |-> d]
\* dict (d), and n[:] of a list: a new object with the same items
DictOf(h, d) == Alloc(h, h[d.id])

\* d[key] = value on the object a reference leads to
SetField(h, r, key, value) == [h EXCEPT ![r.id] = SetItem(h[r.id], key, value)]

IsMapping(h, v) == v.t = "ref" /\ h[v.id].t = "map"
\* normalize (key, value): dict (), dict (value) or dict (value = value),
\* then normalized["_key"] = key
HeapNormalize(h, key, value) ==
    LET normalized == IF value.t = "null" THEN Alloc(h, Map(<<>>))
                      ELSE IF IsMapping(h, value) THEN DictOf(h, value)
                      ELSE Alloc(h, Map(<<Item(VALUE, value)>>))
    IN  [h |-> SetField(normalized.h, normalized.r, KEY, key), r |-> normalized.r]
RECURSIVE NormalizeAll(_, _, _)
NormalizeAll(h, keys, values) ==
    IF keys = <<>> THEN [h |-> h, rs |-> <<>>]
    ELSE LET first == HeapNormalize(h, Head(keys), Head(values))
             rest == NormalizeAll(first.h, Tail(keys), Tail(values))
         IN  [h |-> rest.h, rs |-> <<first.r>> \o rest.rs]

\* the keys and the values that the list comprehension passes to normalize
ElementKeys(h, iterable) ==
    CASE IsMapping(h, iterable) ->
            [i \in 1..Len(h[iterable.id].items) |-> Str(h[iterable.id].items[i].k)]
      [] iterable.t = "ref" -> h[iterable.id].items
      [] iterable.t = "str" -> [i \in 1..Len(iterable.s) |-> Str(<<iterable.s[i]>>)]
ElementValues(h, iterable) ==
    CASE IsMapping(h, iterable) ->
            [i \in 1..Len(h[iterable.id].items) |-> h[iterable.id].items[i].v]
      [] iterable.t = "ref" -> [i \in 1..Len(h[iterable.id].items) |-> Null]
      [] iterable.t = "str" -> [i \in 1..Len(iterable.s) |-> Null]

\* TemplateExprPrinter.template
TemplateText(t) ==
    CASE t.k = "arg" -> t.arg
      [] t.k = "key_ref" -> IntText(t.key_ref)
      [] t.k = "field_ref" -> IntText(t.key) \o <<".">> \o t.field
\* the name parts of the model, from the list the parser builds: texts and
\* template elements in turn
ToName(parts) ==
    Name([i \in 1..((Len(parts) + 1) \div 2) |-> parts[2 * i - 1].s],
         [i \in 1..(Len(parts) \div 2) |-> parts[2 * i].tpl])

\* the data: lists of texts and of numbers, a text, a number, and mappings
\* of mappings (one with a field _key), of a list and None, of a text and a
\* number
HeapColls ==
    { List(<<Str(<<"B">>), Str(<<"A">>)>>), List(<<Num(2), Num(1)>>), List(<<>>),
      List(<<Str(<<"B">>), Num(1)>>), Str(<<"B", "A">>), Num(1),
      Map(<<Item(<<"B">>, Map(<<Item(sDep, Str(<<"x">>))>>)),
            Item(<<"A">>, Map(<<Item(KEY, Str(<<"z">>)), Item(sDep, Str(<<"1">>))>>))>>),
      Map(<<Item(<<"B">>, List(<<Str(<<"x">>)>>)), Item(<<"A">>, Null)>>),
      Map(<<Item(<<"B">>, Str(<<"x">>)), Item(<<"A">>, Num(1))>>) }
\* the names x_@0@, @0@, x_@0.dep@, x_@1@ and x
HeapNames ==
    { <<Str(<<"x", "_">>), Tpl(KeyRef(0)), Str(<<>>)>>,
      <<Str(<<>>), Tpl(KeyRef(0)), Str(<<>>)>>,
      <<Str(<<"x", "_">>), Tpl(FieldRef(0, sDep)), Str(<<>>)>>,
      <<Str(<<"x", "_">>), Tpl(KeyRef(1)), Str(<<>>)>>,
      <<Str(<<"x">>)>> }

\* the locals of the run at its start
Locals(runs, data_ref, node) ==
    [f |-> "run", runs |-> runs, data_ref |-> data_ref, node |-> node,
     iterable |-> Null, k |-> 0, contexts |-> <<>>, generated |-> <<>>, new |-> Null]

InitHeap ==
    /\ data \in {DataEnv(c) : c \in HeapColls}
    /\ ast \in {Map(<<Item(NAME, List(parts))>>) : parts \in HeapNames}
    /\ LET stored == StoreAll(<<>>, <<data, ast>>)
       IN  /\ heap = stored.h
           /\ call = Locals(1, stored.rs[1], stored.rs[2])
    /\ pc = "expand"
    /\ ret = NoCall /\ expanded = NoCall
    /\ stream = <<>> /\ pending = [lines |-> <<>>, err |-> NoErr]
    /\ printed = Nothing /\ error = NoErr
    /\ stack = <<>> /\ driver = NoCall

HeapUnchanged == UNCHANGED <<ast, data, stream, pending, printed, stack, driver>>

\* what run returns or raises, given the nodes generated
Outcome(h, generated, e) ==
    IF e # NoErr THEN Err(e)
    ELSE Ok([i \in 1..Len(generated) |-> Deref(h, generated[i])])

\* iterable = self.expand (tpl, ctx), for the reference T: self.data[tpl.arg]
HeapExpand ==
    /\ pc = "expand"
    /\ call' = [call EXCEPT !.iterable = Lookup(heap[call.data_ref.id], sT)]
    /\ pc' = "normalize"
    /\ UNCHANGED <<heap, ret, expanded, error>>
    /\ HeapUnchanged

\* iterable = [normalize (k, d) for k, d in iterable.items ()], or
\* [normalize (k) for k in iterable], or Error: not iterable
HeapNormalized ==
    /\ pc = "normalize"
    /\ IF call.iterable.t \in {"ref", "str"}
       THEN LET made == NormalizeAll(heap, ElementKeys(heap, call.iterable),
                                     ElementValues(heap, call.iterable))
                list == Alloc(made.h, List(made.rs))
            IN  /\ heap' = list.h
                /\ call' = [call EXCEPT !.iterable = list.r]
                /\ pc' = "sort"
                /\ UNCHANGED <<expanded, error>>
       ELSE /\ error' = Error("shape")
            /\ expanded' = Err(error')
            /\ pc' = "done"
            /\ UNCHANGED <<heap, call>>
    /\ UNCHANGED ret
    /\ HeapUnchanged

\* iterable.sort (key = lambda e: e["_key"]): the list is sorted in place
HeapSort ==
    /\ pc = "sort"
    /\ LET refs == heap[call.iterable.id].items
           keyed == [i \in 1..Len(refs) |->
                        Map(<<Item(KEY, Lookup(heap[refs[i].id], KEY)), Item(NAME, refs[i])>>)]
           sorted == sort(keyed)
       IN  IF sorted.ok
           THEN /\ heap' = [heap EXCEPT ![call.iterable.id] =
                               List([i \in 1..Len(refs) |-> Lookup(sorted.v[i], NAME)])]
                /\ call' = [call EXCEPT !.k = 1]
                /\ pc' = "loop"
                /\ UNCHANGED <<expanded, error>>
           ELSE /\ error' = sorted.e
                /\ expanded' = Err(error')
                /\ pc' = "done"
                /\ UNCHANGED <<heap, call>>
    /\ UNCHANGED ret
    /\ HeapUnchanged

\* for head_ in iterable: head = self.single (head_); yield head + tail;
\* instance = context + sub_instance; yield instance. After the last
\* one run returns the nodes generated
Yield ==
    /\ pc = "loop"
    /\ LET list == heap[call.iterable.id].items
       IN  IF call.k <= Len(list)
           THEN /\ call' = [call EXCEPT !.contexts = Append(@, <<list[call.k]>>)]
                /\ pc' = "copy"
                /\ UNCHANGED expanded
           ELSE /\ expanded' = Outcome(heap, call.generated, NoErr)
                /\ pc' = "done"
                /\ UNCHANGED call
    /\ UNCHANGED <<heap, ret, error>>
    /\ HeapUnchanged

\* alter_f: new = dict (node)
AlterCopy ==
    /\ pc = "copy"
    /\ LET new == DictOf(heap, call.node)
       IN  /\ heap' = new.h
           /\ call' = [call EXCEPT !.new = new.r]
    /\ pc' = "assign"
    /\ UNCHANGED <<ret, expanded, error>>
    /\ HeapUnchanged

\* alter_f: new[field] = func (node[field], context), with func = self.name
AlterAssign ==
    /\ pc = "assign"
    /\ LET parts == heap[Lookup(heap[call.node.id], NAME).id].items
           context == call.contexts[Len(call.contexts)]
           text == name(ToName(parts), [i \in 1..Len(context) |-> Deref(heap, context[i])],
                        Deref(heap, call.data_ref))
       IN  IF text.ok
           THEN /\ heap' = SetField(heap, call.new, NAME, Str(text.v))
                /\ call' = [call EXCEPT !.generated = Append(@, call.new), !.k = @ + 1]
                /\ pc' = "loop"
                /\ UNCHANGED error
           ELSE /\ error' = text.e
                /\ pc' = "print"
                /\ UNCHANGED <<heap, call>>
    /\ UNCHANGED <<ret, expanded>>
    /\ HeapUnchanged

\* TemplateExprPrinter.name, for the message of the error: name_parts = n[:]
\* and name_parts[1::2] = map (self.template, name_parts[1::2])
PrintName ==
    /\ pc = "print"
    /\ LET name_parts == DictOf(heap, Lookup(heap[call.node.id], NAME))
           n == name_parts.h[name_parts.r.id].items
       IN  heap' = [name_parts.h EXCEPT ![name_parts.r.id] =
                       List([i \in 1..Len(n) |->
                                IF i % 2 = 0 THEN Str(TemplateText(n[i].tpl)) ELSE n[i]])]
    /\ expanded' = Err(error)
    /\ pc' = "done"
    /\ UNCHANGED <<call, ret, error>>
    /\ HeapUnchanged

\* run is called again on the same engine with the same data
RunAgain ==
    /\ pc = "done" /\ call.runs = 1
    /\ ret' = expanded
    /\ call' = Locals(2, call.data_ref, call.node)
    /\ pc' = "expand"
    /\ error' = NoErr
    /\ expanded' = NoCall
    /\ UNCHANGED heap
    /\ HeapUnchanged

NextHeap ==
    \/ HeapExpand \/ HeapNormalized \/ HeapSort \/ Yield
    \/ AlterCopy \/ AlterAssign \/ PrintName \/ RunAgain
SpecHeap == InitHeap /\ [][NextHeap]_vars

(***************************************************************************)
(* Properties of instances                                                 *)
(***************************************************************************)
KeyOf(binding) == Lookup(binding, KEY)
\* the keys of the elements of a collection, in native order
CollKeys(c) ==
    CASE c.t = "map" -> [i \in 1..Len(c.items) |-> Str(c.items[i].k)]
      [] c.t = "seq" -> c.items
Count(l, x) == Cardinality({i \in 1..Len(l) : l[i] = x})
SameElements(l1, l2) ==
    /\ Len(l1) = Len(l2)
    /\ \A i \in 1..Len(l1) : Count(l1, l1[i]) = Count(l2, l1[i])
\* the arrangement of the keys l that is ordered by LT(_, _)
Ordered(l, LT(_, _)) == \A i, j \in 1..Len(l) : i < j => ~LT(l[j], l[i])
SortedBy(l, LT(_, _)) ==
    CHOOSE s \in [1..Len(l) -> {l[i] : i \in 1..Len(l)}] : SameElements(s, l) /\ Ordered(s, LT)
\* order of the keys themselves: text keys by code points, numbers by value
NaturalLT(a, b) == Comparable(a, b) /\ KeyLT(a, b)
\* order of the key texts
KeyTextLT(a, b) == TextLT(ValueText(a), ValueText(b))

RECURSIVE Prod(_)
Prod(l) == IF l = <<>> THEN 1 ELSE Head(l) * Prod(Tail(l))
\* the n-th (from 0) tuple of the product of the lists, the leftmost
\* position varying slowest
NthTuple(lists, n) ==
    [j \in 1..Len(lists) |->
        lists[j][((n \div Prod([m \in 1..(Len(lists) - j) |-> Len(lists[j + m])]))
                    % Len(lists[j])) + 1]]

InstancesCall == call.f = "instances" /\ ~call.tpl_decl.none
CallArgs == call.tpl_decl.v.args.v
Outer == Len(call.context)
NewKeys(instance) == [j \in 1..Len(CallArgs) |-> KeyOf(instance[Outer + j])]
\* a call without condition whose references all name a collection of the
\* data, that returned without raising
IndependentCall ==
    /\ InstancesCall
    /\ call.tpl_decl.v.cond.none
    /\ Len(CallArgs) >= 1
    /\ \A j \in 1..Len(CallArgs) : CallArgs[j].k = "arg"
    /\ ret.err = NoErr
ArgKeys(LT(_, _)) ==
    [j \in 1..Len(CallArgs) |-> SortedBy(CollKeys(Lookup(data, CallArgs[j].arg)), LT)]
Enumerates(LT(_, _)) ==
    LET lists == ArgKeys(LT)
    IN  /\ Len(ret.insts) = Prod([j \in 1..Len(lists) |-> Len(lists[j])])
        /\ \A n \in 1..Len(ret.insts) :
              /\ Len(ret.insts[n]) = Outer + Len(CallArgs)
              /\ NewKeys(ret.insts[n]) = NthTuple(lists, n - 1)

DependentCall ==
    /\ InstancesCall
    /\ call.tpl_decl.v.cond.none
    /\ CallArgs = <<ArgRef(sT), FieldRef(Outer, sd)>>
    /\ Lookup(data, sT) \in DepMaps
FieldKeysOf(binding) ==
    LET chosen == SelectSeq(ret.insts, LAMBDA inst : inst[Outer + 1] = binding)
    IN  [i \in 1..Len(chosen) |-> KeyOf(chosen[i][Outer + 2])]
\* C4: with a second reference reading the field of the first one, the
\* collection iterated at the second position of a combination is the field
\* of the binding chosen at the first position of that same combination.
C4_DependentIndexing ==
    DependentCall =>
        /\ ret.err = NoErr
        /\ \A n \in 1..Len(ret.insts) :
              LET first == ret.insts[n][Outer + 1]
              IN  /\ HasKey(Lookup(data, sT), KeyOf(first).s)
                  /\ Lookup(first, sd) = Lookup(Lookup(Lookup(data, sT), KeyOf(first).s), sd)
                  /\ SameElements(FieldKeysOf(first), Lookup(first, sd).items)
        /\ \A i \in 1..Len(Lookup(data, sT).items) :
              Lookup(Lookup(data, sT).items[i].v, sd).items # <<>>
                => \E n \in 1..Len(ret.insts) :
                      KeyOf(ret.insts[n][Outer + 1]) = Str(Lookup(data, sT).items[i].k)
\* two combinations whose first bindings differ and whose second bindings differ
C4_Witness ==
    /\ DependentCall
    /\ \E m, n \in 1..Len(ret.insts) :
          /\ KeyOf(ret.insts[m][Outer + 1]) # KeyOf(ret.insts[n][Outer + 1])
          /\ KeyOf(ret.insts[m][Outer + 2]) # KeyOf(ret.insts[n][Outer + 2])

\* whether an expanded condition is true: some AND branch has every
\* comparison true, = and <> comparing the texts of the two sides
ComparisonHolds(e) ==
    IF e.comp.op = EQ THEN print_expr(e.comp.lhs) = print_expr(e.comp.rhs)
    ELSE print_expr(e.comp.lhs) # print_expr(e.comp.rhs)
ConditionHolds(cond, instance) ==
    LET expanded_cond == or_expr(cond, instance, data)
    IN  /\ expanded_cond.ok
        /\ ~expanded_cond.none
        /\ \E i \in 1..Len(expanded_cond.v) :
              \A j \in 1..Len(expanded_cond.v[i]) : ComparisonHolds(expanded_cond.v[i][j])
ConditionCall == InstancesCall /\ ~call.tpl_decl.v.cond.none /\ ret.err = NoErr
Unconditioned ==
    instances(Some(TplDecl(call.tpl_decl.v.args, Nothing)), call.context, data)
\* C5: with a condition, instances yields the unconditioned instances for
\* which the condition, expanded in the complete instance, is true, in the
\* same order.
C5_ConditionFilters ==
    ConditionCall =>
        /\ Unconditioned.err = NoErr
        /\ ret.insts = SelectSeq(Unconditioned.insts,
                                 LAMBDA inst : ConditionHolds(call.tpl_decl.v.cond.v, inst))
\* some instances are kept and some are dropped
C5_Witness ==
    /\ ConditionCall
    /\ Len(ret.insts) >= 2
    /\ Len(ret.insts) < Len(Unconditioned.insts)

\* C7: without a declaration, instances yields the outer context, once.
C7_AbsentDeclaration ==
    (call.f = "instances" /\ call.tpl_decl.none) => ret = Gen(<<call.context>>, NoErr)
C7_Witness ==
    /\ call.f = "instances" /\ call.tpl_decl.none
    /\ call.context # empty
    /\ ret.insts = <<call.context>>

(***************************************************************************)
(* Properties of the formula expansion                                     *)
(***************************************************************************)
AndCall == call.f = "and_expr_with_nested_or" /\ ret.ok
OrCall == call.f = "or_expr" /\ ret.ok

\* the expanded plain element an element of the source AND stands for
PlainOf(e, ctx) ==
    IF e.k # "expr" THEN <<>>
    ELSE LET r == bool_expr(e.expr, ctx, data) IN IF r.none THEN <<>> ELSE <<r.v>>
\* the nested-OR sub-terms an element of the source AND stands for, each one
\* the list of its branches: a parenthesized OR that expands to at least one
\* branch, or the instances of an AND iterator
SubTermsOf(e, ctx) ==
    CASE e.k = "expr" -> <<>>
      [] e.k = "or_expr" ->
            LET r == or_expr(e.or_expr, ctx, data) IN IF r.none THEN <<>> ELSE <<r.v>>
      [] e.k = "template" ->
            LET gen == instances(e.decl, ctx, data)
            IN  [i \in 1..Len(gen.insts) |->
                    and_expr_with_nested_or(e.expr, gen.insts[i], data).v]
SubTerms == Concat([i \in 1..Len(call.a) |-> SubTermsOf(call.a[i], call.ctx)])
Plains == Concat([i \in 1..Len(call.a) |-> PlainOf(call.a[i], call.ctx)])
\* the number of sub-terms of the elements before the i-th
Offset(i) == Len(Concat([j \in 1..(i - 1) |-> SubTermsOf(call.a[j], call.ctx)]))
Branches(sub_terms) == Prod([j \in 1..Len(sub_terms) |-> Len(sub_terms[j])])
\* a branch if every element kept its place in the source, given the
\* branches chosen in the sub-terms
InSourceOrder(chosen) ==
    Concat([i \in 1..Len(call.a) |->
        PlainOf(call.a[i], call.ctx)
        \o Concat(SubSeq(chosen, Offset(i) + 1,
                         Offset(i) + Len(SubTermsOf(call.a[i], call.ctx))))])

RECURSIVE SourceOr(_, _, _), SourceAnd(_, _, _), AtomsOr(_, _), AtomsAnd(_, _)
SourceOr(o, ctx, true) ==
    \E i \in 1..Len(o) :
        IF o[i].k = "expr" THEN SourceAnd(o[i].expr, ctx, true)
        ELSE LET gen == instances(o[i].decl, ctx, data)
             IN  \E n \in 1..Len(gen.insts) : SourceAnd(o[i].expr, gen.insts[n], true)
SourceAnd(a, ctx, true) ==
    \A i \in 1..Len(a) :
        CASE a[i].k = "expr" -> print_bool_expr(bool_expr(a[i].expr, ctx, data).v) \in true
          [] a[i].k = "or_expr" -> SourceOr(a[i].or_expr, ctx, true)
          [] a[i].k = "template" ->
                LET gen == instances(a[i].decl, ctx, data)
                IN  \A n \in 1..Len(gen.insts) : SourceAnd(a[i].expr, gen.insts[n], true)
\* the atomic comparisons of the source formula
AtomsOr(o, ctx) ==
    UNION {IF o[i].k = "expr" THEN AtomsAnd(o[i].expr, ctx)
           ELSE LET gen == instances(o[i].decl, ctx, data)
                IN  UNION {AtomsAnd(o[i].expr, gen.insts[n]) : n \in 1..Len(gen.insts)}
           : i \in 1..Len(o)}
AtomsAnd(a, ctx) ==
    UNION {CASE a[i].k = "expr" -> {print_bool_expr(bool_expr(a[i].expr, ctx, data).v)}
             [] a[i].k = "or_expr" -> AtomsOr(a[i].or_expr, ctx)
             [] a[i].k = "template" ->
                   LET gen == instances(a[i].decl, ctx, data)
                   IN  UNION {AtomsAnd(a[i].expr, gen.insts[n]) : n \in 1..Len(gen.insts)}
           : i \in 1..Len(a)}
\* the expanded formula under a truth assignment: OR over the branches of
\* AND over the elements; no formula (None) is the empty OR
ExpandedOr(r, true) ==
    /\ ~r.none
    /\ \E i \in 1..Len(r.v) : \A j \in 1..Len(r.v[i]) : print_bool_expr(r.v[i][j]) \in true

\* C2 (as stated): the expanded formula has the truth value of the source
\* formula under every truth assignment to the atomic comparisons.
C2_Equivalent ==
    OrCall =>
        \A true \in SUBSET AtomsOr(call.o, call.ctx) :
            ExpandedOr(ret, true) = SourceOr(call.o, call.ctx, true)

\* an OR iterator over one collection of the data, without condition, whose
\* body is a plain AND
PlainIterator(e) ==
    /\ e.k = "template"
    /\ ~e.decl.none
    /\ e.decl.v.cond.none
    /\ Len(e.decl.v.args.v) = 1
    /\ e.decl.v.args.v[1].k = "arg"
    /\ \A j \in 1..Len(e.expr) : e.expr[j].k = "expr"
\* one branch per element of the collection, in the order of the keys, each
\* the body expanded with the element bound
IteratorBranches(e, ctx) ==
    LET keys == SortedBy(CollKeys(Lookup(data, e.decl.v.args.v[1].arg)), NaturalLT)
    IN  [n \in 1..Len(keys) |->
            [j \in 1..Len(e.expr) |->
                bool_expr(e.expr[j].expr, ctx \o <<normalize(keys[n], Null)>>, data).v]]
Contribution(e, ctx) ==
    IF PlainIterator(e) THEN IteratorBranches(e, ctx)
    ELSE LET r == OrElem(e, ctx, data) IN [i \in 1..Len(r.v) |-> r.v[i].v]
Contributions == Concat([i \in 1..Len(call.o) |-> Contribution(call.o[i], call.ctx)])
Text_xA_or_xB ==
    <<"x", "_", "A", " ", "=", " ", "1", " ", "|", "|", " ",
      "x", "_", "B", " ", "=", " ", "1">>
EndToEnd ==
    /\ call.f = "or_expr"
    /\ call.o = <<Template(DT, <<Plain(AtomX)>>)>>
    /\ call.ctx = empty
    /\ Lookup(data, sT) \in {List(<<Str(<<"A">>), Str(<<"B">>)>>),
                            List(<<Str(<<"B">>), Str(<<"A">>)>>)}

\* C6: an OR iterator without condition over a collection of N elements, with
\* a plain AND as body, adds N branches to the enclosing OR, in the order of
\* the sorted keys, each the body expanded with that element bound; over
\* T = [A, B] the body  x_@0@ = 1  prints as  x_A = 1 || x_B = 1.
C6_IteratorBranches ==
    /\ OrCall =>
          IF Contributions = <<>> THEN ret.none
          ELSE ~ret.none /\ ret.v = Contributions
    /\ EndToEnd => ret.ok /\ (~printed.none => printed.v = Text_xA_or_xB)
\* the end-to-end example has been expanded and printed
C6_Witness ==
    /\ EndToEnd
    /\ Lookup(data, sT) = List(<<Str(<<"B">>), Str(<<"A">>)>>)
    /\ Len(ret.v) = 2
    /\ printed = Some(Text_xA_or_xB)

(***************************************************************************)
(* Properties of Compiler.run                                              *)
(***************************************************************************)
\* a declaration that iterates one collection of the data, which is empty
OverEmpty(tpl_decl) ==
    /\ ~tpl_decl.none
    /\ tpl_decl.v.cond.none
    /\ Len(tpl_decl.v.args.v) = 1
    /\ tpl_decl.v.args.v[1].k = "arg"
    /\ HasKey(data, tpl_decl.v.args.v[1].arg)
    /\ CollKeys(Lookup(data, tpl_decl.v.args.v[1].arg)) = <<>>
\* a formula that consists only of OR-level and AND-level iterators over
\* empty collections
OnlyEmptyIterators(o) ==
    /\ o # <<>>
    /\ \A i \in 1..Len(o) :
          \/ o[i].k = "template" /\ OverEmpty(o[i].decl)
          \/ /\ o[i].k = "expr"
             /\ o[i].expr # <<>>
             /\ \A j \in 1..Len(o[i].expr) :
                   o[i].expr[j].k = "template" /\ OverEmpty(o[i].expr[j].decl)
\* an update list that consists only of update iterators over empty collections
OnlyEmptyUpdates(l) ==
    /\ l # <<>>
    /\ \A i \in 1..Len(l) : l[i].k = "template" /\ OverEmpty(l[i].decl)
GovernedConstruct(c) == OverEmpty(c.decl) \/ OnlyEmptyIterators(c.expr)
GovernedTransition(t) == OverEmpty(t.decl) \/ OnlyEmptyUpdates(t.updates)
\* the raw AST without its governed invariants, unsafes and transitions
Ungoverned ==
    [ast EXCEPT !.invariants = SelectSeq(ast.invariants, LAMBDA c : ~GovernedConstruct(c)),
                !.unsafes = SelectSeq(ast.unsafes, LAMBDA c : ~GovernedConstruct(c)),
                !.transitions = SelectSeq(ast.transitions, LAMBDA t : ~GovernedTransition(t))]
Governed == Ungoverned # ast

\* C8 (as stated): an invariant, unsafe or transition entirely governed by
\* iterators over empty collections is absent from the expanded tree and from
\* the output, and raises no error: the run expands and prints what it would
\* without the construct.
C8_EmptyVanish ==
    /\ pc \in {"write", "done", "failed"} => expanded = run(Ungoverned, data)
    /\ pc = "done" => stream = Concat(write(run(Ungoverned, data).v).lines)

EmptyCategory ==
    \/ expanded.v.decls = <<>>
    \/ expanded.v.init.none
    \/ expanded.v.unsafes = <<>>
    \/ expanded.v.transitions = <<>>
\* C9 (as stated): a run whose expanded declarations, init formula, unsafes
\* or transitions are empty fails with a structural-emptiness error, and
\* never succeeds.
C9_StructuralEmptiness ==
    (pc \in {"done", "failed"} /\ expanded.ok /\ EmptyCategory)
        => (pc = "failed" /\ error.kind = "structural-emptiness")

\* C10 (as stated): when Compiler.run fails, the output stream has received
\* no character.
C10_NoPartialOutput == pc = "failed" => stream = <<>>

\* the injective maps of 1..n onto itself
Perms(n) == {p \in [1..n -> 1..n] : \A i, j \in 1..n : i # j => p[i] # p[j]}
\* the values that hold the same mappings and sequences as v, in every
\* native order of the keys of the mappings and of the elements of the
\* sequences
RECURSIVE Reorderings(_)
Reorderings(v) ==
    CASE v.t = "seq" ->
            {List([i \in 1..Len(v.items) |-> f[p[i]]]) :
                p \in Perms(Len(v.items)),
                f \in {g \in [1..Len(v.items) -> UNION {Reorderings(v.items[i]) : i \in 1..Len(v.items)}] :
                          \A i \in 1..Len(v.items) : g[i] \in Reorderings(v.items[i])}}
      [] v.t = "map" ->
            {Map([i \in 1..Len(v.items) |-> Item(v.items[p[i]].k, f[p[i]])]) :
                p \in Perms(Len(v.items)),
                f \in {g \in [1..Len(v.items) -> UNION {Reorderings(v.items[i].v) : i \in 1..Len(v.items)}] :
                          \A i \in 1..Len(v.items) : g[i] \in Reorderings(v.items[i].v)}}
      [] OTHER -> {v}
\* the result of Compiler.run (cout, d) on the raw AST: the text written to
\* cout by a run that returns, or a failure
RunResult(raw, d) ==
    LET tree == run(raw, d)
        written == write(tree.v)
    IN  IF ~tree.ok THEN [failed |-> TRUE, text |-> <<>>]
        ELSE IF written.err # NoErr THEN [failed |-> TRUE, text |-> <<>>]
        ELSE [failed |-> FALSE, text |-> Concat(written.lines)]

\* C11 (as stated): a run on the same AST and on data that hold the same
\* mappings and sequences in another native order has the same result: the
\* same output text, or an error in both.
C11_OrderIndependent ==
    pc \in {"done", "failed"} =>
        \A d \in Reorderings(data) :
            RunResult(ast, d) = [failed |-> pc = "failed",
                                 text |-> IF pc = "failed" THEN <<>> ELSE stream]

(***************************************************************************)
(* Properties of the names of the expanded tree                            *)
(***************************************************************************)
\* the names of a reference, of an expression, of a formula ...: of the raw
\* AST (raw, the names are lists of parts and the lists hold iterators) or
\* of the expanded tree (the names are texts and the lists are flat)
NamesRef(s) ==
    IF s.k = "array" THEN {s.name} \cup {s.index[i] : i \in 1..Len(s.index)} ELSE {s.name}
NamesRvalue(v) == IF v.k = "ref" THEN NamesRef(v.ref) ELSE {}
NamesExpr(e) ==
    IF e.k = "val" THEN NamesRvalue(e.val) ELSE NamesRvalue(e.lhs) \cup NamesRvalue(e.rhs)
NamesComp(c) == NamesExpr(c.lhs) \cup NamesExpr(c.rhs)
RECURSIVE NamesBool(_, _), NamesAnd(_, _), NamesOr(_, _), NamesSwitch(_, _),
          NamesUpdates(_, _), NamesEnum(_, _)
NamesBool(e, raw) ==
    IF e.k = "comp" THEN NamesComp(e.comp)
    ELSE IF e.forall.k = "comp" THEN NamesComp(e.forall.comp)
    ELSE NamesOr(e.forall.expr, raw)
NamesAnd(a, raw) ==
    UNION {IF ~raw THEN NamesBool(a[i], FALSE)
           ELSE CASE a[i].k = "expr" -> NamesBool(a[i].expr, TRUE)
                  [] a[i].k = "template" -> NamesAnd(a[i].expr, TRUE)
                  [] a[i].k = "or_expr" -> NamesOr(a[i].or_expr, TRUE)
           : i \in 1..Len(a)}
NamesOr(o, raw) ==
    UNION {IF ~raw THEN NamesAnd(o[i], FALSE) ELSE NamesAnd(o[i].expr, TRUE) : i \in 1..Len(o)}
NamesCase(c, raw) == NamesExpr(c.expr) \cup (IF c.wild THEN {} ELSE NamesAnd(c.cond, raw))
NamesSwitch(sw, raw) ==
    UNION {IF ~raw THEN NamesCase(sw[i], FALSE)
           ELSE IF sw[i].k = "case" THEN NamesCase(sw[i].case, TRUE)
           ELSE NamesSwitch(sw[i].case_list, TRUE)
           : i \in 1..Len(sw)}
NamesAssign(u, raw) ==
    NamesRef(u.lhs)
    \cup (CASE u.rhs.k = "switch" -> NamesSwitch(u.rhs.switch, raw)
            [] u.rhs.k = "expr" -> NamesExpr(u.rhs.expr)
            [] u.rhs.k = "rand" -> {})
NamesUpdates(l, raw) ==
    UNION {IF ~raw THEN NamesAssign(l[i], FALSE)
           ELSE IF l[i].k = "assign" THEN NamesAssign(l[i].assign, TRUE)
           ELSE NamesUpdates(l[i].updates, TRUE)
           : i \in 1..Len(l)}
NamesEnum(enum, raw) ==
    UNION {IF ~raw THEN {enum[i]}
           ELSE IF enum[i].k = "name" THEN {enum[i].name}
           ELSE NamesEnum(enum[i].enum, TRUE)
           : i \in 1..Len(enum)}
NamesTransition(t, raw) ==
    {t.name}
    \cup (IF raw THEN NamesOr(t.require, TRUE)
          ELSE IF t.require.none THEN {} ELSE NamesOr(t.require.v, FALSE))
    \cup NamesUpdates(t.updates, raw)
NamesTree(tree, raw) ==
    UNION {NamesEnum(tree.types[i].enum, raw) : i \in 1..Len(tree.types)}
    \cup UNION {NamesRef(tree.decls[i].name) : i \in 1..Len(tree.decls)}
    \cup (IF raw THEN NamesOr(tree.init.expr, TRUE)
          ELSE IF tree.init.none THEN {} ELSE NamesOr(tree.init.v.expr, FALSE))
    \cup UNION {NamesOr(tree.invariants[i].expr, raw) : i \in 1..Len(tree.invariants)}
    \cup UNION {NamesOr(tree.unsafes[i].expr, raw) : i \in 1..Len(tree.unsafes)}
    \cup UNION {NamesTransition(tree.transitions[i], raw) : i \in 1..Len(tree.transitions)}

\* a text that matches [A-Za-z][A-Za-z0-9_]* from its first to its last
\* character
Identifier(s) ==
    /\ Len(s) >= 1
    /\ s[1] \in Letters
    /\ \A i \in 2..Len(s) : s[i] \in Letters \cup {"_"} \cup {DigitChars[j] : j \in 1..10}
\* the in-order concatenation of the literal fragments of a name and of the
\* expansions of its references in a context (none if a reference does not
\* expand)
Concatenation(name_parts, ctx) ==
    LET expanded_refs == [i \in 1..Len(name_parts.tpls) |-> expand(name_parts.tpls[i], ctx, data)]
    IN  IF ~AllOk(expanded_refs) THEN {}
        ELSE {Concat([i \in 1..Len(name_parts.lits) |->
                 IF i = 1 THEN name_parts.lits[1]
                 ELSE ValueText(expanded_refs[i - 1].v) \o name_parts.lits[i]])}
\* the contexts of a run: up to two bindings of elements of T
RunContexts ==
    LET gen == instances(DT, empty, data).insts
        bindings == {gen[i][1] : i \in 1..Len(gen)}
    IN  {empty} \cup {<<b>> : b \in bindings} \cup {<<b1, b2>> : b1 \in bindings, b2 \in bindings}
PossibleNames ==
    UNION {Concatenation(n, ctx) : n \in NamesTree(ast, TRUE), ctx \in RunContexts}
\* the types expand, and a declaration has an instance in which the
\* concatenation of its name is not an identifier
MalformedDecl ==
    /\ types(ast.types, data).ok
    /\ \E i \in 1..Len(ast.decls) :
          LET gen == instances(ast.decls[i].decl, empty, data).insts
          IN  \E n \in 1..Len(gen) :
                 \E s \in Concatenation(ast.decls[i].name.name, gen[n]) : ~Identifier(s)

\* C12 (as stated): after a successful run every name of the expanded tree
\* is the concatenation of the literal fragments of a name of the source and
\* of the expansions of its references, and is an identifier
\* ([A-Za-z][A-Za-z0-9_]*); a name whose concatenation is not an identifier
\* ends the run with a name-format error.
C12_WellFormedNames ==
    /\ pc = "done" =>
          LET possible == PossibleNames
          IN  \A n \in NamesTree(expanded.v, FALSE) : Identifier(n) /\ n \in possible
    /\ (pc \in {"write", "done", "failed"} /\ MalformedDecl) =>
          (~expanded.ok /\ expanded.e.kind = "name-format")


(***************************************************************************)
(* Properties of the formulas of the expanded tree                         *)
(***************************************************************************)
\* a non-empty list of non-empty AND branches of plain boolean expressions
\* (comparisons, and foralls whose body is such a list)
RECURSIVE FlatOr(_)
FlatOr(o) ==
    /\ Len(o) >= 1
    /\ \A i \in 1..Len(o) :
          /\ Len(o[i]) >= 1
          /\ \A j \in 1..Len(o[i]) :
                /\ o[i][j].k \in {"comp", "forall"}
                /\ (o[i][j].k = "forall" /\ o[i][j].forall.k = "expr")
                      => FlatOr(o[i][j].forall.expr)
\* the formulas of an expanded tree: init, invariants, unsafes, guards
Formulas(tree) ==
    (IF tree.init.none THEN {} ELSE {tree.init.v.expr})
    \cup {tree.invariants[i].expr : i \in 1..Len(tree.invariants)}
    \cup {tree.unsafes[i].expr : i \in 1..Len(tree.unsafes)}
    \cup {tree.transitions[i].require.v :
            i \in {j \in 1..Len(tree.transitions) : ~tree.transitions[j].require.none}}
Expanded == pc \in {"write", "done"} \/ (pc = "failed" /\ expanded.ok)

\* C13 (as stated): every formula of the expanded tree (init, invariant,
\* unsafe, guard, body of a forall) is a non-empty list of AND branches,
\* each a non-empty list of plain boolean expressions.
C13_FlatFormulas == Expanded => \A o \in Formulas(expanded.v) : FlatOr(o)


(***************************************************************************)
(* Properties of the resolution of references                              *)
(***************************************************************************)
IndexOf(tpl) == IF tpl.k = "key_ref" THEN tpl.key_ref ELSE tpl.key
Indexed(tpl) == tpl.k \in {"key_ref", "field_ref"}
\* the combinations of the references before the j-th (from 1) of the
\* declaration of the call; the j-th reference is resolved if there is one
Prefix(j) == recursive_generator(SubSeq(CallArgs, 1, j - 1), call.context, data)
\* what the j-th reference resolves to the first time it is resolved
FirstResolved(j) == expand(CallArgs[j], call.context \o Prefix(j).insts[1], data)

\* C14: the j-th reference (from 0) of a declaration, under an outer context
\* of length L, is resolved in a context of L + j bindings: a key-reference
\* or field-reference resolves only if its index n < L + j, and an index
\* n >= L + j raises a lookup error, instances yielding nothing.
C14_IndexVisibility ==
    /\ (call.f = "expand" /\ Indexed(call.tpl)) =>
          IF IndexOf(call.tpl) >= Len(call.context)
          THEN ~ret.ok /\ ret.e.kind = "lookup"
          ELSE ret.ok => ret.v = Lookup(call.context[IndexOf(call.tpl) + 1],
                                        IF call.tpl.k = "key_ref" THEN KEY ELSE call.tpl.field)
    /\ call.f = "instances" =>
          \A j \in 1..Len(CallArgs) :
              (Indexed(CallArgs[j]) /\ Prefix(j).insts # <<>>) =>
                  /\ Len(call.context \o Prefix(j).insts[1]) = Outer + (j - 1)
                  /\ IndexOf(CallArgs[j]) >= Outer + (j - 1)
                        => (ret.insts = <<>> /\ ret.err.kind = "lookup")
                  /\ ret.err = NoErr => IndexOf(CallArgs[j]) < Outer + (j - 1)
\* the second reference names its own position, under an outer context of
\* one binding
C14_Witness ==
    /\ call.f = "instances"
    /\ Outer = 1
    /\ Len(CallArgs) = 2
    /\ CallArgs[1] = ArgRef(sT)
    /\ CallArgs[2] = KeyRef(2)
    /\ Prefix(2).insts # <<>>
    /\ ret.err.kind = "lookup"

\* an argument-reference whose name is not a root key of the data
Absent(tpl) == tpl.k = "arg" /\ data.t = "map" /\ ~HasKey(data, tpl.arg)
\* C15: expanding an argument-reference whose name is not a root key of the
\* Data Environment raises a lookup error, in a name and in a declaration,
\* the empty mapping included; it never yields zero instances silently.
C15_AbsentArgument ==
    /\ (call.f = "expand" /\ Absent(call.tpl)) => (~ret.ok /\ ret.e.kind = "lookup")
    /\ (call.f = "name" /\ \E i \in 1..Len(call.name_parts.tpls) : Absent(call.name_parts.tpls[i]))
          => (~ret.ok /\ ret.e.kind = "lookup")
    /\ call.f = "instances" =>
          \A j \in 1..Len(CallArgs) :
              (Absent(CallArgs[j]) /\ Prefix(j).insts # <<>>)
                  => (ret.insts = <<>> /\ ret.err.kind = "lookup")
\* a declaration over T, the data being the empty mapping
C15_Witness ==
    /\ data = Map(<<>>)
    /\ call.f = "instances"
    /\ CallArgs[1] = ArgRef(sT)
    /\ ret = Gen(<<>>, Wrap("template", Error("lookup")))

\* C16 (as stated): a reference of a declaration that resolves to a scalar
\* leaf (number, boolean, text, null) makes instances raise an expansion
\* error and yield no instance: a scalar is never iterated.
C16_ScalarNotIterated ==
    call.f = "instances" =>
        \A j \in 1..Len(CallArgs) :
            (/\ Prefix(j).insts # <<>>
             /\ FirstResolved(j).ok
             /\ FirstResolved(j).v.t \notin {"map", "seq"})
                => (ret.insts = <<>> /\ IsError(ret.err))


(***************************************************************************)
(* Properties of the evaluation of conditions                              *)
(***************************************************************************)
\* an expression the text evaluation does not allow: an arithmetic
\* expression or an array reference
DisallowedExpr(e) == e.k = "op" \/ (e.val.k = "ref" /\ e.val.ref.k = "array")
\* an element of an AND branch that is a forall, or a comparison with
\* another operator than = and <>, or with a disallowed side
DisallowedElem(e) ==
    \/ e.k = "forall"
    \/ e.comp.op \notin {EQ, NE}
    \/ DisallowedExpr(e.comp.lhs)
    \/ DisallowedExpr(e.comp.rhs)
\* cond: a condition of the source, a list of plain AND branches
Disallowed(cond) ==
    /\ cond \in RestrictedConds
    /\ \E i \in 1..Len(cond) : \E j \in 1..Len(cond[i].expr) :
          DisallowedElem(cond[i].expr[j].expr)

\* C17 (as stated): evaluating a condition that holds, in any AND branch, an
\* arithmetic expression, an array reference, a forall or an operator other
\* than = and <> fails with a condition-restriction error for every
\* candidate instance, whatever the other comparisons are.
C17_RestrictionRaised ==
    /\ (call.f = "eval_cond" /\ Disallowed(call.tpl_decl.cond.v))
          => (~ret.ok /\ ret.e.kind = "condition-restriction")
    /\ (call.f = "instances" /\ Disallowed(call.tpl_decl.v.cond.v)
            /\ Lookup(data, sT).items # <<>>)
          => (ret.insts = <<>> /\ ret.err.kind = "condition-restriction")


(***************************************************************************)
(* Properties of an AND that is not nested in an OR                        *)
(***************************************************************************)
HasNestedOr(a) == \E i \in 1..Len(a) : a[i].k = "or_expr"
\* C18: expanding an AND that is not nested in an OR and has a parenthesized
\* OR as a direct element fails with an error; it never expands
\* successfully.
C18_NestedOrRejected ==
    (call.f = "and_expr" /\ HasNestedOr(call.a)) => (~ret.ok /\ ret.e # NoErr)
\* p = 1 && (p = 1 || q = 1)
C18_Witness ==
    /\ call.f = "and_expr"
    /\ call.a = <<Plain(AtomP), NestedOr(POrQ)>>
    /\ ~ret.ok

(***************************************************************************)
(* Properties of the categories of top-level constructs                    *)
(***************************************************************************)
DeclOf(c) == IF "decl" \in DOMAIN c THEN c.decl ELSE Nothing
\* the expansions that are not nothing, in order
Copies(rs) ==
    LET kept == SelectSeq(rs, LAMBDA r : r.ok /\ ~r.none)
    IN  [j \in 1..Len(kept) |-> kept[j].v]
\* the copies of construct c: its expansions in the instances of its own
\* declaration from the empty context, in instance order
PerInstance(c, Expansion(_, _, _)) ==
    LET insts == instances(DeclOf(c), empty, data).insts
    IN  Copies([j \in 1..Len(insts) |-> Expansion(c, insts[j], data)])
\* the one expansion of c in the empty context
Once(c, Expansion(_, _, _)) == Copies(<<Expansion(c, empty, data)>>)
PerInstanceAll(cs, Expansion(_, _, _)) ==
    Concat([i \in 1..Len(cs) |-> PerInstance(cs[i], Expansion)])
OnceAll(cs, Expansion(_, _, _)) ==
    Concat([i \in 1..Len(cs) |-> Once(cs[i], Expansion)])
InitOf(tree) == IF tree.init.none THEN <<>> ELSE <<tree.init.v>>

\* the categories that read the declaration of their constructs
CategoriesPerInstance ==
    /\ (call.f = "decls" /\ ret.ok) => ret.v = PerInstanceAll(call.constructs, decl)
    /\ (call.f = "proc_expr_construct_list" /\ ret.ok)
            => ret.v = PerInstanceAll(call.constructs, proc_expr_construct)
    /\ (call.f = "transitions" /\ ret.ok)
            => ret.v = PerInstanceAll(call.constructs, transition)

RECURSIVE ListContribution(_, _), ListDefined(_, _)
ListCall == call.f \in {"switch", "update_list"}
IsIterator(e) == e.k = "template"
BodyOf(e) == IF "case_list" \in DOMAIN e THEN e.case_list ELSE e.updates
\* the single expansion of a plain element
Single(e, ctx) ==
    IF e.k = "case" THEN case(e.case, ctx, data) ELSE assign(e.assign, ctx, data)
\* what an element contributes: its single expansion, if it is any; for an
\* iterator, what its body contributes in each instance, in instance order
ElemContribution(e, ctx) ==
    IF IsIterator(e)
    THEN LET insts == instances(e.decl, ctx, data).insts
         IN  Concat([j \in 1..Len(insts) |-> ListContribution(BodyOf(e), insts[j])])
    ELSE Copies(<<Single(e, ctx)>>)
ListContribution(l, ctx) == Concat([i \in 1..Len(l) |-> ElemContribution(l[i], ctx)])
\* no name, reference or formula of the list fails to expand
ListDefined(l, ctx) ==
    \A i \in 1..Len(l) :
        IF IsIterator(l[i])
        THEN LET gen == instances(l[i].decl, ctx, data)
             IN  /\ gen.err = NoErr
                 /\ \A j \in 1..Len(gen.insts) : ListDefined(BodyOf(l[i]), gen.insts[j])
        ELSE Single(l[i], ctx).ok
\* the list returned: nothing stands for the empty list
Returned == IF ret.none THEN <<>> ELSE ret.v

\* C20: the expansion of a case list or an update list is the in-order
\* concatenation of what its elements contribute: the single expansion of
\* a plain element, and for an iterator the flattened expansion of its body
\* in each instance, in instance order
C20_ListConcatenation ==
    (ListCall /\ ListDefined(call.l, call.ctx))
        => (ret.ok /\ Returned = ListContribution(call.l, call.ctx))

(***************************************************************************)
(* Properties of the errors raised                                         *)
(***************************************************************************)
TopCall == call.f \in {"types", "decls", "proc_expr_construct_list", "transitions", "run"}
\* the expansion of a reference of a name raised
NameReferenceFailed ==
    /\ ~ret.ok
    /\ Len(ret.e.trail) >= 2
    /\ SubSeq(ret.e.trail, Len(ret.e.trail) - 1, Len(ret.e.trail)) = <<"name", "template">>

\* C21: when a reference of a name of a top-level construct fails, the
\* error carries one entry per enclosing layer, from the construct to the
\* name to the reference, before the cause
C21_TrailFromConstruct ==
    (TopCall /\ NameReferenceFailed) => ret.e.trail = <<"construct", "name", "template">>

\* an iterator with an instance in which its body contributes nothing
EmptyInstance(e, ctx) ==
    /\ IsIterator(e)
    /\ LET gen == instances(e.decl, ctx, data)
       IN  /\ gen.err = NoErr
           /\ \E j \in 1..Len(gen.insts) :
                  /\ ListDefined(BodyOf(e), gen.insts[j])
                  /\ ListContribution(BodyOf(e), gen.insts[j]) = <<>>
\* a case whose condition holds an AND iterator with such an instance
EmptyCondInstance(e, ctx) ==
    /\ e.k = "case" /\ ~e.case.wild
    /\ \E k \in 1..Len(e.case.cond) :
          /\ e.case.cond[k].k = "template"
          /\ LET gen == instances(e.case.cond[k].decl, ctx, data)
             IN  /\ gen.err = NoErr
                 /\ \E j \in 1..Len(gen.insts) :
                        and_expr(e.case.cond[k].expr, gen.insts[j], data) = OkNone

\* C25: an iterator of an update list, of a case list or of the condition
\* of a case whose body expands to nothing in an instance adds nothing for
\* that instance, and the expansion goes on without the error of a missing
\* list
C25_EmptyInstanceContinues ==
    (/\ ListCall
     /\ \E i \in 1..Len(call.l) :
            EmptyInstance(call.l[i], call.ctx) \/ EmptyCondInstance(call.l[i], call.ctx))
        => (ret.ok \/ ret.e.kind # "TypeError")

\* the keys a collection is iterated by: the keys of a mapping, the elements
\* of a list, the characters of a text
IterationKeys(c) ==
    CASE c.t = "map" -> {Str(c.items[i].k) : i \in 1..Len(c.items)}
      [] c.t = "seq" -> {c.items[i] : i \in 1..Len(c.items)}
      [] c.t = "str" -> {Str(<<c.s[i]>>) : i \in 1..Len(c.s)}
      [] OTHER -> {}

\* C26: every instance yielded is the outer context, binding for binding,
\* followed by one new binding per reference of the declaration, in the
\* order of the references, each taken from the collection its reference
\* denotes in the bindings before it; the condition of the declaration was
\* read against the whole instance, outer bindings included
C26_ContextAccumulates ==
    InstancesCall =>
        \A n \in 1..Len(ret.insts) :
            LET inst == ret.insts[n]
            IN  /\ Len(inst) = Outer + Len(CallArgs)
                /\ SubSeq(inst, 1, Outer) = call.context
                /\ \A j \in 1..Len(CallArgs) :
                      LET coll == expand(CallArgs[j], SubSeq(inst, 1, Outer + j - 1), data)
                      IN  /\ coll.ok
                          /\ KeyOf(inst[Outer + j]) \in IterationKeys(coll.v)
                /\ ~call.tpl_decl.v.cond.none => ConditionHolds(call.tpl_decl.v.cond.v, inst)
\* inside an instance of T, a declaration over T whose condition compares
\* the outer key with the new one keeps some instances
C26_Witness ==
    /\ InstancesCall
    /\ Outer = 1
    /\ CallArgs = <<ArgRef(sT)>>
    /\ call.tpl_decl.v.cond = Some(<<PlainAnd(<<CmpNames(KName(0), NE, KName(1))>>)>>)
    /\ Len(ret.insts) >= 1
    /\ \A n \in 1..Len(ret.insts) : ret.insts[n][1] = call.context[1]

(***************************************************************************)
(* Properties of the text written                                          *)
(***************************************************************************)
\* the lines of a text, each with its newline
Newlines(s) == {i \in 1..Len(s) : s[i] = "\n"}
LineEnd(s, k) == CHOOSE i \in Newlines(s) : Cardinality({j \in Newlines(s) : j <= i}) = k
SplitLines(s) ==
    [k \in 1..Cardinality(Newlines(s)) |->
        SubSeq(s, IF k = 1 THEN 1 ELSE LineEnd(s, k - 1) + 1, LineEnd(s, k))]
Written == SplitLines(stream)
StartsWith(l, p) == Len(l) >= Len(p) /\ SubSeq(l, 1, Len(p)) = p
\* the section a line belongs to, by the way it starts: 0 process count,
\* 1 types, 2 declarations, 3 init, 4 invariants, 5 unsafes, 6 transitions
Section(l) ==
    CASE StartsWith(l, <<"n", "u", "m", "b", "e", "r", "_", "p", "r", "o", "c", "s", " ">>) -> 0
      [] StartsWith(l, <<"t", "y", "p", "e", " ">>) -> 1
      [] StartsWith(l, <<"i", "n", "i", "t", " ", "(">>) -> 3
      [] StartsWith(l, <<"i", "n", "v", "a", "r", "i", "a", "n", "t", " ", "(">>) -> 4
      [] StartsWith(l, <<"u", "n", "s", "a", "f", "e", " ", "(">>) -> 5
      [] StartsWith(l, <<"t", "r", "a", "n", "s", "i", "t", "i", "o", "n", " ">>) -> 6
      [] StartsWith(l, <<"\t">>) \/ StartsWith(l, <<"{">>) \/ StartsWith(l, <<"}">>) -> 6
      [] OTHER -> 2
OfSection(w, k) == SelectSeq(w, LAMBDA l : Section(l) = k)
IsRequires(l) == StartsWith(l, <<"\t", "r", "e", "q", "u", "i", "r", "e", "s", " ">>)
\* the block of a transition: the requires line is its second line, there
\* if and only if the transition has a guard, and the lines of the updates
\* follow in the order of the update list
TransitionBlock(t, b) ==
    LET first == IF t.require.none THEN 3 ELSE 4
    IN  /\ Section(b[1]) = 6 /\ ~IsRequires(b[1])
        /\ \A i \in 1..Len(b) : IsRequires(b[i]) <=> (~t.require.none /\ i = 2)
        /\ Len(b) >= first
        /\ SubSeq(b, first, Len(b) - 1) = Concat([i \in 1..Len(t.updates) |-> UpdateLines(t.updates[i])])
\* the lines come by sections
BySections(w) == \A i, j \in 1..Len(w) : i < j => Section(w[i]) <= Section(w[j])
\* every section holds one block per element of the tree, in tree order
BlockPerElement(w, tree) ==
    /\ Len(OfSection(w, 0)) = (IF tree.size_proc.none THEN 0 ELSE 1)
    /\ OfSection(w, 1) = [i \in 1..Len(tree.types) |-> TypeLine(tree.types[i])]
    /\ OfSection(w, 2) = [i \in 1..Len(tree.decls) |-> DeclLine(tree.decls[i])]
    /\ OfSection(w, 3) = <<line_proc_expr_construct(tree.init.v, <<"i", "n", "i", "t">>)>>
    /\ OfSection(w, 4) = [i \in 1..Len(tree.invariants) |->
                         line_proc_expr_construct(tree.invariants[i],
                                                  <<"i", "n", "v", "a", "r", "i", "a", "n", "t">>)]
    /\ OfSection(w, 5) = [i \in 1..Len(tree.unsafes) |->
                         line_proc_expr_construct(tree.unsafes[i], <<"u", "n", "s", "a", "f", "e">>)]
    /\ OfSection(w, 6) = Concat([i \in 1..Len(tree.transitions) |->
                                 TransitionLines(tree.transitions[i])])
    /\ \A i \in 1..Len(tree.transitions) :
            TransitionBlock(tree.transitions[i], TransitionLines(tree.transitions[i]))

\* C22: the lines are written in the order process count, types,
\* declarations, init, invariants, unsafes, transitions; when the writing is
\* done every section holds one block per element of the expanded tree, in
\* tree order, equal elements as often as they occur; in a transition the
\* requires line, there only with a guard, precedes the update lines, which
\* follow the update list
C22_SectionOrder ==
    LET w == Written
    IN  /\ BySections(w)
        /\ pc = "done" => BlockPerElement(w, expanded.v)

\* a process count, two equal types, two equal invariants, a transition
\* with a guard after one without, all written
C22_Witness ==
    /\ pc = "done"
    /\ ~ast.size_proc.none
    /\ Len(expanded.v.transitions) = 2
    /\ expanded.v.transitions[1].require.none
    /\ ~expanded.v.transitions[2].require.none
    /\ LET w == Written
       IN  /\ Len(OfSection(w, 1)) = 2 /\ OfSection(w, 1)[1] = OfSection(w, 1)[2]
           /\ Len(OfSection(w, 4)) = 2 /\ OfSection(w, 4)[1] = OfSection(w, 4)[2]
           /\ Len(SelectSeq(w, IsRequires)) = 1

(***************************************************************************)
(* Properties of the transitions written                                   *)
(***************************************************************************)
\* the transitions of the model with the instances of their declarations,
\* in source order and instance order
TransitionCopies ==
    Concat([i \in 1..Len(ast.transitions) |->
        LET insts == instances(ast.transitions[i].decl, empty, data).insts
        IN  [j \in 1..Len(insts) |-> [t |-> ast.transitions[i], inst |-> insts[j]]]])
UpdatesOf(c) == update_list(c.t.updates, c.inst, data)
GuardOf(c) == or_expr(c.t.require, c.inst, data)

\* C27: a transition is emitted if and only if its update list does not
\* expand to nothing; one whose guard expands to nothing is emitted without
\* guard, and no requires line is written for it
C27_EmptyGuardKept ==
    Expanded =>
        LET kept == SelectSeq(TransitionCopies, LAMBDA c : ~UpdatesOf(c).none)
            tr == expanded.v.transitions
        IN  /\ Len(tr) = Len(kept)
            /\ \A k \in 1..Len(tr) :
                  /\ tr[k].updates = UpdatesOf(kept[k]).v
                  /\ tr[k].require.none <=> GuardOf(kept[k]).none
                  /\ tr[k].require.none
                        => \A n \in 1..Len(TransitionLines(tr[k])) :
                              ~IsRequires(TransitionLines(tr[k])[n])
            /\ pc = "done"
                  => Len(SelectSeq(Written, IsRequires))
                        = Len(SelectSeq(tr, LAMBDA t : ~t.require.none))

\* a transition whose guard is an iterator over E, written without a
\* requires line before a transition with a guard
C27_Witness ==
    /\ pc = "done"
    /\ ast.transitions = <<TransitionE, TransitionP>>
    /\ Len(expanded.v.transitions) = 2
    /\ expanded.v.transitions[1].require.none
    /\ expanded.v.transitions[1].updates # <<>>
    /\ Len(SelectSeq(Written, IsRequires)) = 1

(***************************************************************************)
(* Properties of conditions that expand to nothing                         *)
(***************************************************************************)
CondOf == IF call.f = "eval_cond" THEN call.tpl_decl.cond.v ELSE call.tpl_decl.v.cond.v
CondCall == call.f \in {"eval_cond", "instances"}

\* C28: a condition whose elements are all iterators over empty collections
\* counts as satisfied: evaluating it does not fail and the candidate
\* instance is kept
C28_EmptyConditionHolds ==
    (CondCall /\ OnlyEmptyIterators(CondOf))
        => IF call.f = "eval_cond" THEN ret.ok /\ ret.v = TRUE
           ELSE ret = instances(Some(TplDecl(call.tpl_decl.v.args, Nothing)), call.context, data)


(***************************************************************************)
(* Properties of the command-line drivers                                   *)
(***************************************************************************)
\* the file the compiled output is written to is open, exists
CompiledOpen(d) ==
    CASE d.compiled = "tmp" -> d.tmp_open
      [] d.compiled = "named" -> d.named_open
      [] OTHER -> ~d.stdout_closed
CompiledExists(d) ==
    CASE d.compiled = "tmp" -> d.tmp = "exists"
      [] d.compiled = "named" -> d.named = "exists"
      [] OTHER -> FALSE

\* a temporary file that was created is gone when main is left, the file
\* named with -o is never deleted, standard output is never closed
FilesKept ==
    /\ driver.pc = "exit" => driver.tmp # "exists"
    /\ driver.named # "deleted"
    /\ ~driver.stdout_closed

\* C29, as stated: in both drivers the compiled output goes to a temporary
\* file exactly when neither -o nor -c is given; a temporary file is deleted
\* on every exit path, a file named with -o is never deleted and standard
\* output is never closed.
C29_TempIffNeitherFlag ==
    /\ driver.pc # "output" => (driver.compiled = "tmp" <=> (~driver.o /\ ~driver.c))
    /\ FilesKept

\* C29, amended: main of ctc/compiler.py writes the compiled output to a
\* temporary file exactly when neither -o nor -c is given; main of
\* ctc/__init__.py, the installed entry point, exactly when -c is not given,
\* -o naming there the file that receives the output of the checker. In both
\* a temporary file is deleted on every exit path, a file named with -o is
\* never deleted and standard output is never closed.
C29_TempFile ==
    /\ driver.pc # "output" =>
          (driver.compiled = "tmp" <=>
              IF driver.main = "compiler.main" THEN ~driver.o /\ ~driver.c
              ELSE ~driver.c)
    /\ FilesKept

\* main of ctc/__init__.py has used and deleted a temporary file although -o
\* was given, after the checker could not be started
C29_Witness ==
    /\ driver.main = "ctc.main" /\ driver.o /\ ~driver.c
    /\ driver.pc = "exit" /\ driver.tmp = "deleted" /\ driver.named = "exists"
    /\ driver.started = 1 /\ error = Error("OSError")

\* C30: the checker is started at most once per run, never when -c is
\* given, and only after the compilation has completed without error and the
\* compiled file has been closed; the compiled file exists when the checker
\* is started and is the last argument passed to it.
C30_CheckerStart ==
    [][driver'.started # driver.started =>
          /\ driver.started = 0 /\ driver'.started = 1
          /\ ~driver.c
          /\ expanded.ok /\ error = NoErr
          /\ ~CompiledOpen(driver)
          /\ CompiledExists(driver)
          /\ driver'.argv_last = driver.compiled]_vars

\* main of ctc/compiler.py has started the checker on the file named with
\* -o, and has left that file in place
C30_Witness ==
    /\ driver.main = "compiler.main" /\ driver.o
    /\ driver.started = 1 /\ driver.argv_last = "named"
    /\ driver.pc = "exit" /\ driver.named = "exists"


(***************************************************************************)
(* Properties of the calls made                                            *)
(***************************************************************************)
\* the number of nodes of a formula, of a template declaration, of a
\* reference list: a strict sub-tree has fewer nodes, a shorter list too
RECURSIVE SizeOr(_), SizeAnd(_), SizeBool(_), SizeDecl(_)
SizeList(l) == 1 + Len(l)
SizeDecl(tpl_decl) ==
    IF tpl_decl.none THEN 1
    ELSE 2 + (IF tpl_decl.v.args.none THEN 1 ELSE SizeList(tpl_decl.v.args.v))
           + (IF tpl_decl.v.cond.none THEN 0 ELSE SizeOr(tpl_decl.v.cond.v))
SizeForall(f) == IF f.k = "comp" THEN 2 ELSE 1 + SizeOr(f.expr)
SizeBool(e) == IF e.k = "forall" THEN 1 + SizeForall(e.forall) ELSE 2
SizeAnd(a) ==
    IF a = <<>> THEN 1
    ELSE SizeAnd(Tail(a))
         + (CASE Head(a).k = "expr" -> 1 + SizeBool(Head(a).expr)
              [] Head(a).k = "template" -> 1 + SizeDecl(Head(a).decl) + SizeAnd(Head(a).expr)
              [] Head(a).k = "or_expr" -> 1 + SizeOr(Head(a).or_expr))
SizeOr(o) ==
    IF o = <<>> THEN 1
    ELSE SizeOr(Tail(o))
         + (CASE Head(o).k = "expr" -> 1 + SizeAnd(Head(o).expr)
              [] Head(o).k = "template" -> 1 + SizeDecl(Head(o).decl) + SizeAnd(Head(o).expr))
Size(c) ==
    CASE c.f = "or_expr" -> SizeOr(c.node)
      [] c.f \in {"and_expr", "and_expr_with_nested_or"} -> SizeAnd(c.node)
      [] c.f = "bool_expr" -> SizeBool(c.node)
      [] c.f = "forall_expr" -> SizeForall(c.node)
      [] c.f = "instances" -> SizeDecl(c.node)
      [] c.f = "eval_cond" ->
            1 + (IF c.node.cond.none THEN 0 ELSE SizeOr(c.node.cond.v))
      [] c.f = "recursive_generator" -> SizeList(c.node)
      [] OTHER -> 1

\* the calls that the step has put on the stack
Made == SubSeq(stack', 1, Len(stack') - Len(stack) + 1)
\* the step has made a call of recursive_generator from recursive_generator
GeneratorRecursed ==
    /\ Made # <<>>
    /\ Head(stack).f = "recursive_generator"
    /\ \E i \in 1..Len(Made) : Made[i].f = "recursive_generator"

\* C23: every call made by a call of the expansion is on a part of the
\* AST that has fewer nodes than the part of its caller, a recursive call of
\* recursive_generator is on the tail of the reference list, the contexts
\* are finite lists of bindings, and the call that started the run ends:
\* the stack of the calls to make becomes empty.
C23_Terminates ==
    /\ [][\A i \in 1..Len(Made) :
            /\ Size(Made[i]) < Size(Head(stack))
            /\ Len(Made[i].ctx) \in Nat
            /\ (Made[i].f = "recursive_generator" /\ Head(stack).f = "recursive_generator")
                  => Made[i].node = Tail(Head(stack).node)]_pc
    /\ <>(stack = <<>> /\ ret # NoCall)

\* the OR iterator over two references, filtered by a condition that
\* iterates, with an iterator, a parenthesized OR and a quantifier in its
\* body, has been expanded for a list of two elements
C23_Witness ==
    /\ call.f = "or_expr" /\ call.node = DeepOr
    /\ Len(Lookup(data, sT).items) = 2
    /\ stack = <<>>
    /\ ret.ok
    /\ pc > 20


(***************************************************************************)
(* Properties of the objects written                                       *)
(***************************************************************************)
\* the values of the bindings of the contexts created so far, in a heap
ContextValues(h) ==
    [i \in 1..Len(call.contexts) |->
        [j \in 1..Len(call.contexts[i]) |-> Deref(h, call.contexts[i][j])]]

\* C24: at every step of a run the Data Environment and the raw AST have the
\* value they had before the run; no step changes the value of a context
\* created before it; and a second run on the same engine and the same
\* data returns or raises what the first one did.
C24_Unchanged ==
    /\ [](/\ Deref(heap, call.data_ref) = data
          /\ Deref(heap, call.node) = ast
          /\ (pc = "done" /\ call.runs = 2) => expanded = ret)
    /\ [][ContextValues(heap') = ContextValues(heap)]_vars

\* the second run has ended, on a mapping of mappings of which one holds a
\* field _key: two contexts were built from copies of these mappings and
\* two copies of the node were given the names x_1 and x_x
C24_Witness ==
    /\ pc = "done" /\ call.runs = 2
    /\ IsMapping(heap, Lookup(heap[call.data_ref.id], sT))
    /\ Len(call.contexts) = 2
    /\ expanded.ok
    /\ expanded.v = <<Map(<<Item(NAME, Str(<<"x", "_", "1">>))>>),
                      Map(<<Item(NAME, Str(<<"x", "_", "x">>))>>)>>
    /\ ContextValues(heap)[1][1] = Map(<<Item(KEY, Str(<<"A">>)), Item(sDep, Str(<<"1">>))>>)

=============================================================================
